---------------------------- MODULE Spec2Model ----------------------------
(***************************************************************************)
(* A model of the school-record (생기부) extraction and reconciliation     *)
(* service: the evaluation-file parser (app/parser/yaml_parser.py), the    *)
(* document extractors (app/parser/pdf_parser.py) and the two ingestion    *)
(* services (app/services/reference_service.py, client_service.py).        *)
(*                                                                         *)
(* Conventions.  A Python str is a sequence of one-character strings; a    *)
(* Korean syllable is written as its romanisation, one element per         *)
(* syllable ("bi","gong","gae" is 비공개), so that lengths, stripping,      *)
(* splitting and substring tests are computed as Python computes them.     *)
(* In the texts of a document, a fixed phrase that the extractors match as *)
(* a whole (a section title, a category label, a boilerplate pattern) is   *)
(* one element.  Python's None is the value None below, which is no        *)
(* text.  A Python dict is the sequence of its <<key, value>> items in     *)
(* insertion order.  Identifiers are romanised:                            *)
(*   _비공개인지 BigonggaeInji      _학년_파싱 HaknyeonParsing              *)
(*   _원문_인덱스_생성 WonmunIndexSaengseong   레퍼런스_저장 ReferenceJeojang *)
(*   _창체_테이블_파싱 ChangcheTableParsing    _창체_파싱 ChangcheParsing    *)
(*   _세특_파싱 SeteukParsing       _행특_파싱 HaengteukParsing             *)
(*   _정제_창체_내용 JeongjeChangcheNaeyong    _문서_꼬리 MunseoKkori        *)
(*   클라이언트_생기부_저장 ClientSaenggibuJeojang                          *)
(*   자율활동 "jayul"  동아리활동 "dongari"  진로활동 "jinro"               *)
(*   희망분야 "huimang"  평가내용 "pyeongga"  이유 "iyu"                    *)
(***************************************************************************)
EXTENDS Integers, Sequences, FiniteSets, TLC

-----------------------------------------------------------------------------
(* Python values *)

\* Python's None where a text (or a grade) is optional.
None == <<"None">>

\* Range of a sequence.
Range(s) == {s[i] : i \in 1..Len(s)}

\* n copies of the character c.
Rep(c, n) == [i \in 1..n |-> c]

\* The concatenation of Op(s[1]), ..., Op(s[n]): a for loop appending to a list.
FlatMap(Op(_), s) ==
  LET f[i \in 0..Len(s)] == IF i = 0 THEN <<>> ELSE f[i - 1] \o Op(s[i])
  IN  f[Len(s)]

\* Whitespace as str.strip() and the regex class \s see it.
Whitespace == {" ", "\t", "\r", "\n"}

\* str.lstrip()
RECURSIVE LStrip(_)
LStrip(s) == IF s # <<>> /\ Head(s) \in Whitespace THEN LStrip(Tail(s)) ELSE s

\* str.rstrip()
RECURSIVE RStrip(_)
RStrip(s) ==
  IF s # <<>> /\ s[Len(s)] \in Whitespace THEN RStrip(SubSeq(s, 1, Len(s) - 1)) ELSE s

\* str.strip()
Strip(s) == LStrip(RStrip(s))

\* sep.join(parts)
RECURSIVE Join(_, _)
Join(sep, parts) ==
  IF parts = <<>> THEN <<>>
  ELSE IF Len(parts) = 1 THEN parts[1]
  ELSE parts[1] \o sep \o Join(sep, Tail(parts))

\* s.split(c) for a one-character separator c: always at least one piece.
RECURSIVE Split(_, _)
Split(s, c) ==
  IF \A i \in 1..Len(s) : s[i] # c THEN <<s>>
  ELSE LET k == CHOOSE i \in 1..Len(s) : s[i] = c /\ \A j \in 1..(i - 1) : s[j] # c
       IN  <<SubSeq(s, 1, k - 1)>> \o Split(SubSeq(s, k + 1, Len(s)), c)

\* a in b, for two str.
IsSubstring(a, b) ==
  \E i \in 0..(Len(b) - Len(a)) : SubSeq(b, i + 1, i + Len(a)) = a

-----------------------------------------------------------------------------
(* A decoded YAML value (yaml.safe_load): a str, a dict, an int, or null.   *)
(* One record shape for all of them: kind, the text s (a str's value, an    *)
(* int's decimal digits), the items m of a dict.                            *)

YStr(s)  == [kind |-> "str",  s |-> s,    m |-> <<>>]
YInt(ds) == [kind |-> "int",  s |-> ds,   m |-> <<>>]
YDict(m) == [kind |-> "dict", s |-> <<>>, m |-> m]
YNull    == [kind |-> "none", s |-> <<>>, m |-> <<>>]
YList    == [kind |-> "list", s |-> <<>>, m |-> <<>>]

\* Python truthiness of a decoded value (YList stands for a non-empty list).
Truthy(v) ==
  CASE v.kind = "str"  -> v.s # <<>>
    [] v.kind = "int"  -> v.s # <<"0">>
    [] v.kind = "dict" -> v.m # <<>>
    [] v.kind = "none" -> FALSE
    [] OTHER           -> TRUE

\* str(v) for the values str() is applied to.
PyStr(v) ==
  CASE v.kind \in {"str", "int"} -> v.s
    [] v.kind = "none"           -> <<"N", "o", "n", "e">>
    [] OTHER                     -> <<"[", "x", "]">>

\* d.get(key, default) on a dict's items.
DictGet(m, key, default) ==
  IF \E i \in 1..Len(m) : m[i][1] = key
  THEN m[CHOOSE i \in 1..Len(m) : m[i][1] = key][2]
  ELSE default

\* key in d
DictHas(m, key) == \E i \in 1..Len(m) : m[i][1] = key

\* d[key] = value: an existing key keeps its place, a new key goes last.
DictSet(m, key, value) ==
  IF DictHas(m, key)
  THEN [i \in 1..Len(m) |-> IF m[i][1] = key THEN <<key, value>> ELSE m[i]]
  ELSE Append(m, <<key, value>>)

\* A for loop that updates an accumulator: Op(...Op(Op(init, s[1]), s[2])..., s[n]).
Fold(Op(_, _), init, s) ==
  LET f[i \in 0..Len(s)] == IF i = 0 THEN init ELSE Op(f[i - 1], s[i])
  IN  f[Len(s)]

-----------------------------------------------------------------------------
(* app/parser/yaml_parser.py *)

\* The redaction sentinel 비공개, one element per syllable.
Sentinel == <<"bi", "gong", "gae">>

DigitChars == <<"0", "1", "2", "3", "4", "5", "6", "7", "8", "9">>
IsDigit(c) == \E i \in 1..10 : DigitChars[i] = c
DigitVal(c) == (CHOOSE i \in 1..10 : DigitChars[i] = c) - 1

\* int(ds) for a decimal digit string.
RECURSIVE IntVal(_)
IntVal(ds) ==
  IF ds = <<>> THEN 0 ELSE 10 * IntVal(SubSeq(ds, 1, Len(ds) - 1)) + DigitVal(ds[Len(ds)])

\* _학년_파싱 returns None when the key has no leading digit.
NoGrade == -1

\* _학년_파싱(key): an int key is returned as it is; otherwise the first
\* character of str(key) when it is a digit (re.match(r"(\d)", ...)).
HaknyeonParsing(key) ==
  IF key.kind = "int" THEN IntVal(key.s)
  ELSE LET t == PyStr(key)
       IN  IF t # <<>> /\ IsDigit(Head(t)) THEN DigitVal(Head(t)) ELSE NoGrade

\* "if not grade": None and 0 are falsy.
GradeFalsy(g) == g = NoGrade \/ g = 0

BigonggaeInjiWhole(v) == v.kind = "str" /\ v.s = Sentinel
\* _비공개인지(value): a str whose strip() is the sentinel.
BigonggaeInji(v) == v.kind = "str" /\ Strip(v.s) = Sentinel

\* "str(x).strip() if x else ''"
StrStripOrEmpty(v) == IF Truthy(v) THEN Strip(PyStr(v)) ELSE <<>>

\* The student block: info.get("성명", ""), the name as one atomic string.
StudentOf(info) == [name |-> DictGet(info, "seongmyeong", "")]

\* One item of the 희망분야 mapping.
CareerHopeEntry(item) ==
  LET grade == HaknyeonParsing(item[1])
      value == item[2]
  IN  IF ~GradeFalsy(grade) /\ Truthy(value) /\ ~BigonggaeInji(value)
      THEN <<[grade |-> grade, hope |-> PyStr(value)]>>
      ELSE <<>>

\* One (grade key, content) item under a category of 창의적_체험활동상황:
\* the list of records it appends (none or one).
ActivityEntry(category, item) ==
  LET grade   == HaknyeonParsing(item[1])
      content == item[2]
  IN  IF GradeFalsy(grade) THEN <<>>
      ELSE IF BigonggaeInji(content) THEN <<>>
      ELSE IF content.kind = "str"
        THEN <<[category |-> category, grade |-> grade, career_hope |-> None,
                evaluation |-> content.s, reason |-> <<>>]>>
      ELSE IF content.kind # "dict" THEN <<>>
      ELSE LET evaluation  == DictGet(content.m, "pyeongga", YStr(<<>>))
               reason      == DictGet(content.m, "iyu", YStr(<<>>))
               career_hope == DictGet(content.m, "huimang", YNull)
           IN  IF BigonggaeInji(evaluation) THEN <<>>
               ELSE <<[category |-> category, grade |-> grade,
                       career_hope |-> IF Truthy(career_hope) /\ ~BigonggaeInji(career_hope)
                                       THEN PyStr(career_hope) ELSE None,
                       evaluation |-> StrStripOrEmpty(evaluation),
                       reason |-> StrStripOrEmpty(reason)]>>

\* One category of 창의적_체험활동상황: skipped unless its value is a dict.
ActivityCategory(pair) ==
  IF pair[2].kind # "dict" THEN <<>>
  ELSE LET E(item) == ActivityEntry(pair[1], item) IN FlatMap(E, pair[2].m)

\* One (subject name, content) item under a grade of 세부능력_및_특기사항.
SubjectEntry(grade, item) ==
  LET subject_name == item[1]
      content      == item[2]
  IN  IF subject_name = "seteuk_jeonche" THEN <<>>
      ELSE IF BigonggaeInji(content) THEN <<>>
      ELSE IF content.kind = "str"
        THEN <<[grade |-> grade, subject_name |-> subject_name,
                evaluation |-> content.s, reason |-> <<>>]>>
      ELSE IF content.kind # "dict" THEN <<>>
      ELSE LET evaluation == DictGet(content.m, "pyeongga", YStr(<<>>))
               reason     == DictGet(content.m, "iyu", YStr(<<>>))
           IN  IF BigonggaeInji(evaluation) THEN <<>>
               ELSE <<[grade |-> grade, subject_name |-> subject_name,
                       evaluation |-> StrStripOrEmpty(evaluation),
                       reason |-> StrStripOrEmpty(reason)]>>

\* One grade of 세부능력_및_특기사항.
SubjectGrade(pair) ==
  LET grade == HaknyeonParsing(pair[1])
  IN  IF GradeFalsy(grade) THEN <<>>
      ELSE IF pair[2].kind # "dict" THEN <<>>
      ELSE LET E(item) == SubjectEntry(grade, item) IN FlatMap(E, pair[2].m)

\* BehaviorEntry with the "isinstance(content, dict)" test dropped for values
\* that are not mappings: such a value is recorded like a bare string.
BehaviorEntryAnyShape(item) ==
  LET grade   == HaknyeonParsing(item[1])
      content == item[2]
  IN  IF GradeFalsy(grade) THEN <<>>
      ELSE IF BigonggaeInji(content) THEN <<>>
      ELSE IF content.kind # "dict"
        THEN <<[grade |-> grade, evaluation |-> PyStr(content), reason |-> <<>>]>>
      ELSE LET evaluation == DictGet(content.m, "pyeongga", YStr(<<>>))
               reason     == DictGet(content.m, "iyu", YStr(<<>>))
           IN  IF BigonggaeInji(evaluation) THEN <<>>
               ELSE <<[grade |-> grade,
                       evaluation |-> StrStripOrEmpty(evaluation),
                       reason |-> StrStripOrEmpty(reason)]>>

\* One (grade key, content) item of 행동특성_및_종합의견.
BehaviorEntry(item) ==
  LET grade   == HaknyeonParsing(item[1])
      content == item[2]
  IN  IF GradeFalsy(grade) THEN <<>>
      ELSE IF BigonggaeInji(content) THEN <<>>
      ELSE IF content.kind = "str"
        THEN <<[grade |-> grade, evaluation |-> content.s, reason |-> <<>>]>>
      ELSE IF content.kind # "dict" THEN <<>>
      ELSE LET evaluation == DictGet(content.m, "pyeongga", YStr(<<>>))
               reason     == DictGet(content.m, "iyu", YStr(<<>>))
           IN  IF BigonggaeInji(evaluation) THEN <<>>
               ELSE <<[grade |-> grade,
                       evaluation |-> StrStripOrEmpty(evaluation),
                       reason |-> StrStripOrEmpty(reason)]>>

\* parse_yaml(filepath), on the decoded tree `data` of the file `filename`.
ParseYaml(data, filename) ==
  [student      |-> StudentOf(data.haksaeng),
   career_hopes |-> FlatMap(CareerHopeEntry, data.huimang),
   activities   |-> FlatMap(ActivityCategory, data.changche),
   subjects     |-> FlatMap(SubjectGrade, data.seteuk),
   behaviors    |-> FlatMap(BehaviorEntry, data.haengteuk),
   source_yaml  |-> filename]

-----------------------------------------------------------------------------
(* Evaluation files: the decoded trees the parser is run on. *)

\* All sequences over V of length at most n.
SeqsUpTo(V, n) == UNION {[1..k -> V] : k \in 0..n}

\* The distinct elements of a sequence, in order of first occurrence.
RECURSIVE Distinct(_)
Distinct(s) ==
  IF s = <<>> THEN <<>>
  ELSE LET r == Distinct(SubSeq(s, 1, Len(s) - 1))
       IN  IF s[Len(s)] \in Range(r) THEN r ELSE Append(r, s[Len(s)])

\* A two-level mapping written as the list of its leaves [top, sub, val] in file
\* order: the dict of its top-level keys, each holding either the dict of its
\* (sub, val) items or, for a leaf written at top level (sub = nosub), val itself.
Nest(leaves, nosub) ==
  LET tops == Distinct([i \in 1..Len(leaves) |-> leaves[i].top])
      Under(t) == SelectSeq(leaves, LAMBDA l : l.top = t)
      ValueOf(t) ==
        IF Under(t)[1].sub = nosub THEN Under(t)[1].val
        ELSE YDict([i \in 1..Len(Under(t)) |-> <<Under(t)[i].sub, Under(t)[i].val>>])
  IN  [i \in 1..Len(tops) |-> <<tops[i], ValueOf(tops[i])>>]

\* A mapping's keys are distinct, and a top-level key holding a scalar holds nothing else.
WellFormedLeaves(leaves, nosub) ==
  /\ \A i \in 1..Len(leaves) : leaves[i].sub = nosub => leaves[i].val.kind # "dict"
  /\ \A i, j \in 1..Len(leaves) :
       i # j => /\ <<leaves[i].top, leaves[i].sub>> # <<leaves[j].top, leaves[j].sub>>
                /\ leaves[i].top = leaves[j].top => leaves[i].sub # nosub

Leaves(Paths, Vals, nosub, n) ==
  {l \in SeqsUpTo({[top |-> p[1], sub |-> p[2], val |-> v] : p \in Paths, v \in Vals}, n) :
     WellFormedLeaves(l, nosub)}

\* The most leaves an evaluation file's section has in SpecYaml.
MaxYamlLeaves == 2

T_good  == <<"g", "o", "o", "d">>
T_why   == <<"w", "h", "y">>
T_pad   == <<" ">> \o Sentinel \o <<" ", "\n">>
T_inner == <<"x">> \o Sentinel

\* Entry values: bare strings, mappings, and a value that is neither.
YamlVals ==
  { YStr(T_good), YStr(Sentinel), YStr(T_pad),
    YDict(<< <<"pyeongga", YStr(T_good)>>, <<"iyu", YStr(T_why)>> >>),
    YDict(<< <<"pyeongga", YStr(Sentinel)>>, <<"iyu", YStr(T_why)>> >>),
    YDict(<< <<"pyeongga", YStr(T_pad)>> >>),
    YDict(<< <<"pyeongga", YStr(T_inner)>> >>),
    YDict(<< <<"iyu", YStr(T_why)>> >>),
    YInt(<<"7">>) }

K_1haknyeon == YStr(<<"1", "hak", "nyeon">>)
K_2haknyeon == YStr(<<"2", "hak", "nyeon">>)
K_int1      == YInt(<<"1">>)
K_haknyeon  == YStr(<<"hak", "nyeon">>)
GradeKeys == {K_1haknyeon, K_int1, K_haknyeon}

EmptyTree == [haksaeng |-> << <<"seongmyeong", "kim">> >>, huimang |-> <<>>,
              changche |-> <<>>, seteuk |-> <<>>, haengteuk |-> <<>>]

ActivitySections(n) ==
  {Nest(l, YNull) :
     l \in Leaves(({"jayul", "jinro"} \X GradeKeys) \cup {<<"dongari", YNull>>},
                  YamlVals, YNull, n)}

SubjectSections(n) ==
  {Nest(l, "") :
     l \in Leaves(({K_1haknyeon, K_haknyeon} \X {"math", "seteuk_jeonche"})
                    \cup {<<K_2haknyeon, "">>},
                  YamlVals, "", n)}

BehaviorSections(n) ==
  {[i \in 1..Len(l) |-> <<l[i].top, l[i].val>>] :
     l \in Leaves(GradeKeys \X {YNull}, YamlVals, K_haknyeon, n)}

\* The trees of SpecYaml: one populated record section of at most n leaves at
\* a time.
YamlTrees(n) ==
  {[EmptyTree EXCEPT !.changche = a] : a \in ActivitySections(n)}
    \cup {[EmptyTree EXCEPT !.seteuk = x] : x \in SubjectSections(n)}
    \cup {[EmptyTree EXCEPT !.haengteuk = b] : b \in BehaviorSections(n)}

K_4haknyeon == YStr(<<"4", "hak", "nyeon">>)
K_int7      == YInt(<<"7">>)
K_int12     == YInt(<<"1", "2">>)
K_12haknyeon == YStr(<<"1", "2", "hak", "nyeon">>)
T_padded    == <<" ">> \o T_good \o <<" ">>

\* Files whose grade keys lie outside 1..3, and a file with a category key
\* that is not one of the three activity types (봉사활동).
DomainTrees ==
  { [EmptyTree EXCEPT !.changche = << <<"jayul", YDict(<< <<k, YStr(T_good)>> >>)>> >>] :
      k \in {K_4haknyeon, K_int7, K_int12, K_12haknyeon} }
    \cup { [EmptyTree EXCEPT !.huimang = << <<k, YStr(T_good)>> >>] :
              k \in {K_1haknyeon, K_4haknyeon, K_int7} }
    \cup { [EmptyTree EXCEPT
              !.changche = << <<"bongsa", YDict(<< <<K_1haknyeon, YStr(T_good)>> >>)>> >>] }

\* Entry values of each shape: a bare string with surrounding blanks, a
\* mapping whose fields are padded or not strings, a mapping with no field, a
\* number, a list, null.
ShapeVals ==
  { YStr(T_padded),
    YDict(<< <<"pyeongga", YStr(T_padded)>>, <<"iyu", YInt(<<"5">>)>> >>),
    YDict(<< <<"huimang", YStr(T_good)>> >>),
    YInt(<<"7">>), YList, YNull }

\* Files in which an entry of each shape is followed, in the same mapping, by
\* an ordinary entry.
ShapeTrees ==
  { [EmptyTree EXCEPT !.changche =
       << <<"jayul", YDict(<< <<K_1haknyeon, v>>, <<K_2haknyeon, YStr(T_good)>> >>)>> >>] :
      v \in ShapeVals }
    \cup { [EmptyTree EXCEPT !.seteuk =
              << <<K_1haknyeon, YDict(<< <<"math", v>>, <<"eng", YStr(T_good)>> >>)>> >>] :
              v \in ShapeVals }
    \cup { [EmptyTree EXCEPT !.haengteuk =
              << <<K_1haknyeon, v>>, <<K_2haknyeon, YStr(T_good)>> >>] :
              v \in ShapeVals }

-----------------------------------------------------------------------------
(* Initial values of the results the functions build. *)

\* parse_yaml's `result` as initialised at lines 55-62.
EmptyResult(filename) ==
  [student |-> [name |-> ""], career_hopes |-> <<>>, activities |-> <<>>,
   subjects |-> <<>>, behaviors |-> <<>>, source_yaml |-> filename]

\* pdf_data = None: no paired document, or one that parse_pdf rejected.
NoPdf == [is_none |-> TRUE, activities |-> <<>>, subjects |-> <<>>, behaviors |-> <<>>,
          source_pdf |-> "None"]

\* 인덱스 as initialised at lines 39-43.
EmptyIndex == [activities |-> <<>>, subjects |-> <<>>, behaviors |-> <<>>]

-----------------------------------------------------------------------------
(* app/services/reference_service.py *)

\* item.get("original_text") or ""
TextOrEmpty(t) == IF t = None THEN <<>> ELSE t

NEWLINE == <<"\n">>

ActivityIndexStepNoKey(merged, item) ==
  LET key  == <<item.category, item.grade>>
      text == TextOrEmpty(item.original_text)
  IN  IF text # <<>>
      THEN DictSet(merged, key, Append(DictGet(merged, key, <<>>), text))
      ELSE merged
\* Lines 52-59: one activity item into activities_merged; an item without
\* content still registers its key.
ActivityIndexStep(merged, item) ==
  LET key  == <<item.category, item.grade>>
      text == TextOrEmpty(item.original_text)
  IN  IF text # <<>>
      THEN DictSet(merged, key, Append(DictGet(merged, key, <<>>), text))
      ELSE IF DictHas(merged, key) THEN merged ELSE Append(merged, <<key, <<>>>>)

SubjectIndexStepLast(merged, item) ==
  LET key  == <<item.subject_name, item.grade>>
      text == TextOrEmpty(item.original_text)
  IN  IF text # <<>> THEN DictSet(merged, key, <<text>>) ELSE merged
\* Lines 68-72: one subject item into subjects_merged.
SubjectIndexStep(merged, item) ==
  LET key  == <<item.subject_name, item.grade>>
      text == TextOrEmpty(item.original_text)
  IN  IF text # <<>>
      THEN DictSet(merged, key, Append(DictGet(merged, key, <<>>), text))
      ELSE merged

\* Lines 77-78: one behavior item into the index.
BehaviorIndexStep(index, item) == DictSet(index, item.grade, item.original_text)

\* _원문_인덱스_생성(pdf_data)
WonmunIndexSaengseong(pdf) ==
  IF pdf.is_none THEN EmptyIndex
  ELSE LET activities_merged == Fold(ActivityIndexStep, <<>>, pdf.activities)
           subjects_merged   == Fold(SubjectIndexStep, <<>>, pdf.subjects)
       IN  [activities |->
              [i \in 1..Len(activities_merged) |->
                 <<activities_merged[i][1],
                   IF activities_merged[i][2] # <<>>
                   THEN Join(NEWLINE, activities_merged[i][2]) ELSE None>>],
            subjects |->
              [i \in 1..Len(subjects_merged) |->
                 <<subjects_merged[i][1], Join(NEWLINE, subjects_merged[i][2])>>],
            behaviors |-> Fold(BehaviorIndexStep, <<>>, pdf.behaviors)]

RefActivityInner(index, ae) ==
  IF DictHas(index.activities, <<ae.category, ae.grade>>)
  THEN <<[category |-> ae.category, grade |-> ae.grade, career_hope |-> ae.career_hope,
          original_text |-> DictGet(index.activities, <<ae.category, ae.grade>>, None),
          evaluation |-> ae.evaluation, reason |-> ae.reason]>>
  ELSE <<>>
\* Lines 143-153: the RefActivity row added for one evaluation record.
RefActivity(index, ae) ==
  <<[category |-> ae.category, grade |-> ae.grade, career_hope |-> ae.career_hope,
     original_text |-> DictGet(index.activities, <<ae.category, ae.grade>>, None),
     evaluation |-> ae.evaluation, reason |-> ae.reason]>>

RefSubjectWrongIndex(index, se) ==
  <<[grade |-> se.grade, subject_name |-> se.subject_name,
     original_text |-> DictGet(index.activities, <<se.subject_name, se.grade>>, None),
     evaluation |-> se.evaluation, reason |-> se.reason]>>
\* Lines 156-165: the RefSubject row added for one evaluation record.
RefSubject(index, se) ==
  <<[grade |-> se.grade, subject_name |-> se.subject_name,
     original_text |-> DictGet(index.subjects, <<se.subject_name, se.grade>>, None),
     evaluation |-> se.evaluation, reason |-> se.reason]>>

\* Lines 168-176: the RefBehavior row added for one evaluation record.
RefBehavior(index, be) ==
  <<[grade |-> be.grade,
     original_text |-> DictGet(index.behaviors, be.grade, None),
     evaluation |-> be.evaluation, reason |-> be.reason]>>

\* Lines 123-176: the RefStudent row with the child rows added under it.
RefStudent(yd, index, source_pdf) ==
  LET A(ae) == RefActivity(index, ae)
      S(se) == RefSubject(index, se)
      B(be) == RefBehavior(index, be)
  IN  [name         |-> yd.student.name,
       source_pdf   |-> source_pdf,
       source_yaml  |-> yd.source_yaml,
       career_hopes |-> yd.career_hopes,
       activities   |-> FlatMap(A, yd.activities),
       subjects     |-> FlatMap(S, yd.subjects),
       behaviors    |-> FlatMap(B, yd.behaviors)]

\* Lines 112-120: db.delete of the first row with this name and evaluation file
\* (the delete cascades to its child rows, which are held in the row here).
DeleteExisting(store, name, source_yaml) ==
  LET hits == {i \in 1..Len(store) :
                 store[i].name = name /\ store[i].source_yaml = source_yaml}
  IN  IF hits = {} THEN store
      ELSE LET k == CHOOSE i \in hits : \A j \in hits : i <= j
           IN  SubSeq(store, 1, k - 1) \o SubSeq(store, k + 1, Len(store))

\* 레퍼런스_저장(db, yaml_filepath), given the decoded tree of the evaluation file
\* and parse_pdf's result for the paired document (NoPdf when there is none, or
\* when parse_pdf raised ValueError): the store after db.commit().
ReferenceJeojang(store, tree, filename, pdf) ==
  LET yd    == ParseYaml(tree, filename)
      index == WonmunIndexSaengseong(pdf)
  IN  Append(DeleteExisting(store, yd.student.name, yd.source_yaml),
             RefStudent(yd, index, pdf.source_pdf))

-----------------------------------------------------------------------------
(* 레퍼런스_저장 step by step inside the session's transaction, as            *)
(* app/routers/reference.py upload_batch runs it for each file of data/yaml.  *)
(* A null of the evaluation file (yaml.safe_load's None) in the place of a    *)
(* name, a category or a subject name is the word "None".                     *)

\* yaml_parser.py line 65: data.get on the None an empty file decodes to
\* raises AttributeError.
ParseYamlRaises(data) == data = YNull

\* Line 132: db.flush() of a RefStudent whose name is null (models/reference.py
\* line 25, nullable=False) raises IntegrityError.
StudentInsertRaises(yd) == yd.student.name = "None"

\* Line 178: db.commit() flushes the child rows; a RefActivity whose category
\* or a RefSubject whose subject_name is null (models/reference.py lines 63,
\* 89, nullable=False) raises IntegrityError.
CommitRaises(row) ==
  \/ \E i \in 1..Len(row.activities) : row.activities[i].category = "None"
  \/ \E i \in 1..Len(row.subjects) : row.subjects[i].subject_name = "None"

SessionKeep(session, yd) == session
\* Lines 112-120 on the session: see DeleteExisting.
SessionDelete(session, yd) == DeleteExisting(session, yd.student.name, yd.source_yaml)

\* Lines 123-176 on the session: the RefStudent row and its child rows are added.
SessionAdd(session, yd, pdf) ==
  Append(session, RefStudent(yd, WonmunIndexSaengseong(pdf), pdf.source_pdf))

NoRollback(session, store) == session
\* routers/reference.py line 81: db.rollback() discards what the session has
\* not committed.
Rollback(session, store) == store

\* routers/reference.py lines 73-79 and 82-86: the LoadResult of one file.
LoadSuccess(filename, student) ==
  [filename |-> filename, student_name |-> student.name, success |-> TRUE]
LoadFailure(filename) ==
  [filename |-> filename, student_name |-> "None", success |-> FALSE]

\* routers/reference.py lines 88-94
BatchLoadResult(results) ==
  LET success_count == Cardinality({i \in 1..Len(results) : results[i].success})
  IN  [total |-> Len(results), success_count |-> success_count,
       fail_count |-> Len(results) - success_count]

-----------------------------------------------------------------------------
(* app/parser/pdf_parser.py: text utilities.                                *)
(* A fixed phrase of the document (a section title, a column header, a      *)
(* category label, a boilerplate pattern of _문서_꼬리) is one element of a   *)
(* text, written as a romanised word; free content is made of one-character *)
(* elements.  Fixed phrases never take part in a length the code compares.  *)

\* s.replace(c, "")
Remove(s, c) == SelectSeq(s, LAMBDA x : x # c)

\* _비공개(text): the text contains 비공개 or 공공기관의 정보공개.
Bigonggae(text) == IsSubstring(Sentinel, text) \/ "jeongbogonggae" \in Range(text)

\* The boilerplate a pattern of 노이즈_패턴 matches, one element per pattern:
\* school name with a date, 발급번호, an IP address, 전화번호, 담당자/담당부서,
\* 학교생활기록부, 주민등록번호, 고등학교장.
KkoriPatterns ==
  {"hakgyo_date", "balgeupbeonho", "ip_address", "jeonhwabeonho", "damdangja",
   "saenghwalgirokbu", "juminbeonho", "hakgyojang"}

\* _문서_꼬리(text): some pattern is found in the text.
MunseoKkori(text) == \E t \in KkoriPatterns : t \in Range(text)

\* re.match(r"^\d+\s*반", line_s)
ClassNumberPrefix(s) ==
  \E k \in 2..Len(s) :
    /\ s[k] = "ban" /\ IsDigit(s[1])
    /\ \E d \in 1..(k - 1) :
         /\ \A i \in 1..d : IsDigit(s[i])
         /\ \A i \in (d + 1)..(k - 1) : s[i] \in Whitespace

\* re.match(r".*영역\s+시간\s+특기사항", line_s)
TableHeaderRun(s) ==
  \E i, j, k \in 1..Len(s) :
    /\ i + 1 < j /\ j + 1 < k
    /\ s[i] = "yeongyeok" /\ s[j] = "sigan" /\ s[k] = "teukgisahang"
    /\ \A x \in ((i + 1)..(j - 1)) \cup ((j + 1)..(k - 1)) : s[x] \in Whitespace

\* A line the activity filters drop (lines 102-117 and 359-368): empty, a
\* 당해학년도 / 내부검토 중 notice, redacted, boilerplate, a bare header word,
\* the section title, a line starting with 반 / 번호 / 이름 or a class number, the
\* joined table header 영역 시간 특기사항.
ChangcheNoise(line_s) ==
  \/ line_s = <<>>
  \/ "danghae" \in Range(line_s) \/ "naebugeomto" \in Range(line_s)
  \/ Bigonggae(line_s)
  \/ MunseoKkori(line_s)
  \/ RStrip(line_s) \in {<<"haknyeon">>, <<"yeongyeok">>, <<"sigan">>, <<"teukgisahang">>,
                         <<"changuijeok">>}
  \/ "changche_title" \in Range(line_s)
  \/ Head(line_s) \in {"ban", "beonho", "ireum"}
  \/ ClassNumberPrefix(line_s)
  \/ TableHeaderRun(line_s)

\* _정제_창체_내용(content)
JeongjeChangcheNaeyong(content) ==
  LET pieces == Split(content, "\n")
      lines  == [i \in 1..Len(pieces) |-> Remove(Strip(pieces[i]), "\r")]
      kept   == SelectSeq(lines, LAMBDA l : ~ChangcheNoise(l))
  IN  Strip(Join(<<" ">>, kept))

-----------------------------------------------------------------------------
(* _창체_테이블_파싱 *)

\* _활동_타입
ActivityTypes == {"jayul", "dongari", "jinro"}

\* 순서: the rank of a category in the output order (9 for any other).
Sunseo(category) ==
  CASE category = "jayul" -> 0 [] category = "dongari" -> 1 [] category = "jinro" -> 2
    [] OTHER -> 9

\* The activity-content threshold of lines 238, 256 and 375.
ChangcheMinLen == 15

\* str(c or "").strip().replace("\r", "")
CleanCell(c) == IF c = None THEN <<>> ELSE Remove(Strip(c), "\r")

\* re.match(r"^[123]$", c)
IsGradeCell(c) == c \in {<<"1">>, <<"2">>, <<"3">>}

\* re.match(r"^\d{1,3}$", c)
IsHoursCell(c) == Len(c) \in 1..3 /\ \A i \in 1..Len(c) : IsDigit(c[i])

\* c in _활동_타입
IsActivityCell(c) == Len(c) = 1 /\ c[1] \in ActivityTypes

\* The cells `skip` holds: the labels, the header words, 희망분야 and "".
IsSkipCell(c) ==
  \/ IsActivityCell(c)
  \/ c \in {<<"haknyeon">>, <<"yeongyeok">>, <<"sigan">>, <<"teukgisahang">>, <<"huimang">>, <<>>}

\* The least element of a non-empty set of numbers.
Min(S) == CHOOSE x \in S : \A y \in S : x <= y
Max(S) == CHOOSE x \in S : \A y \in S : x >= y

\* max(content_cells, key=len): the first of the longest cells.
Longest(cs) ==
  cs[Min({i \in 1..Len(cs) : \A j \in 1..Len(cs) : Len(cs[j]) <= Len(cs[i])})]

\* re.search(r"희망분야[\s\t]+(.+?)(?:\n|$)", content_raw): the places
\* <<start, group start, group end, end>> where the pattern matches at start.
\* The whitespace run is the longest that leaves a character other than a
\* newline for the group; the group runs to the next newline, which the match
\* consumes, or to the end of the text.
HopeMatchAt(s, i) ==
  IF s[i] # "huimang" THEN {}
  ELSE LET runs == {k \in 1..(Len(s) - i - 1) :
                      /\ \A j \in (i + 1)..(i + k) : s[j] \in Whitespace
                      /\ s[i + k + 1] # "\n"}
       IN  IF runs = {} THEN {}
           ELSE LET g  == i + Max(runs) + 1
                    nl == {j \in (g + 1)..Len(s) : s[j] = "\n"}
                IN  IF nl = {} THEN {<<i, g, Len(s), Len(s)>>}
                    ELSE {<<i, g, Min(nl) - 1, Min(nl)>>}

\* The first match in the text, or {} when there is none.
HopeSearch(s) ==
  LET starts == {i \in 1..Len(s) : HopeMatchAt(s, i) # {}}
  IN  IF starts = {} THEN {} ELSE HopeMatchAt(s, Min(starts))

\* The local state of _창체_테이블_파싱 at lines 136-139.
TableInit ==
  [current_grade |-> 1, current_activity |-> "None", changche_sijakdoem |-> FALSE,
   gyeolgwa |-> <<>>]

\* Lines 251-257: the text of a record that already exists, after a row with
\* the non-empty content `content`.
MergedText(existing, content) ==
  LET existing_s == IF existing = None THEN <<>> ELSE existing
      merged == Strip(existing_s \o <<" ">> \o content)
  IN  IF IsSubstring(content, existing_s) THEN existing
      ELSE IF Len(merged) > ChangcheMinLen THEN merged ELSE None

SeedTextInclusive(content) == IF Len(content) >= ChangcheMinLen THEN content ELSE None
\* Line 238: the text of a record seeded by a row with the content `content`.
SeedText(content) == IF Len(content) > ChangcheMinLen THEN content ELSE None

\* Line 172: the row's cells, cleaned.
CleanCells(row) == [i \in 1..Len(row) |-> CleanCell(row[i])]

\* Lines 179-182: the running grade after the row.
RowGrade(st, cells) ==
  LET grades == {i \in 1..Len(cells) : IsGradeCell(cells[i])}
  IN  IF grades = {} THEN st.current_grade ELSE DigitVal(cells[Min(grades)][1])

\* The running category forgotten by a row without a label.
RowActivityNoCarry(st, cells) ==
  LET acts == {i \in 1..Len(cells) : IsActivityCell(cells[i])}
  IN  IF acts = {} THEN "None" ELSE cells[Min(acts)][1]
\* Lines 185-187: the running category after the row.
RowActivity(st, cells) ==
  LET acts == {i \in 1..Len(cells) : IsActivityCell(cells[i])}
  IN  IF acts = {} THEN st.current_activity ELSE cells[Min(acts)][1]

\* Lines 196-203, form 1: the cell after a 희망분야 cell, in a 진로활동 row.
HopeCell(current_activity, cells) ==
  LET hopes == IF current_activity # "jinro" THEN {}
               ELSE {i \in 1..(Len(cells) - 1) :
                       cells[i] = <<"huimang">> /\ cells[i + 1] # <<>>}
  IN  IF hopes = {} THEN None ELSE cells[Min(hopes) + 1]

\* Lines 206-213
ContentCells(cells, career_hope_value) ==
  SelectSeq(cells, LAMBDA c :
    /\ ~IsSkipCell(c)
    /\ c # career_hope_value
    /\ ~IsGradeCell(c)
    /\ ~IsHoursCell(c))

\* Lines 216-232: the career hope and the cleaned content of a row whose
\* longest content cell is content_raw; hope_m is the match of form 2, a
\* 희망분야 line inside the content, or {} when it is not looked for or not found.
RowContent(career_hope_value, content_raw, hope_m) ==
  IF hope_m = {}
  THEN [career_hope |-> career_hope_value, content |-> JeongjeChangcheNaeyong(content_raw)]
  ELSE LET m == CHOOSE x \in hope_m : TRUE
       IN  [career_hope |-> Strip(SubSeq(content_raw, m[2], m[3])),
            content |-> JeongjeChangcheNaeyong(
                          SubSeq(content_raw, 1, m[1] - 1)
                            \o SubSeq(content_raw, m[4] + 1, Len(content_raw)))]

\* Lines 196-232, for a row with the cells `cells` in the category
\* current_activity.
RowHopeAndContent(current_activity, cells, career_hope_value, content_cells) ==
  IF content_cells = <<>>
  THEN [career_hope |-> career_hope_value, content |-> <<>>]
  ELSE RowContent(career_hope_value, Longest(content_cells),
                  IF current_activity = "jinro" /\ career_hope_value = None
                  THEN HopeSearch(Longest(content_cells)) ELSE {})

\* Lines 172-232: what the cleaned cells of one row say: whether the row is
\* skipped as blank, the running grade and category after it, the career hope
\* and the cleaned content it carries.
RowParts(cells, current_grade, current_activity, career_hope_value) ==
  LET hc == RowHopeAndContent(current_activity, cells, career_hope_value,
                              ContentCells(cells, career_hope_value))
  IN  [blank |-> \A i \in 1..Len(cells) : cells[i] = <<>>,
       current_grade |-> current_grade,
       current_activity |-> current_activity,
       career_hope |-> hc.career_hope,
       content |-> hc.content]

TableRowPartsOf(st, cells) ==
  RowParts(cells, RowGrade(st, cells), RowActivity(st, cells),
           HopeCell(RowActivity(st, cells), cells))

\* Lines 170-232, for one row of a table.
TableRowParts(st, row) == TableRowPartsOf(st, CleanCells(row))

\* TableRowApply with line 247 reduced to "if career_hope": a later value
\* replaces the one the record has.
TableRowApplyOverwrite(st, r) ==
  LET key == <<r.current_grade, r.current_activity>>
      item_base == IF r.current_activity = "jinro"
                   THEN [category |-> r.current_activity, grade |-> r.current_grade,
                         original_text |-> SeedText(r.content),
                         career_hope |-> r.career_hope]
                   ELSE [category |-> r.current_activity, grade |-> r.current_grade,
                         original_text |-> SeedText(r.content)]
      old == DictGet(st.gyeolgwa, key, item_base)
      hoped == IF r.current_activity = "jinro" /\ r.career_hope \notin {None, <<>>}
               THEN [old EXCEPT !.career_hope = r.career_hope] ELSE old
      merged == IF r.content # <<>>
                THEN [hoped EXCEPT !.original_text = MergedText(old.original_text, r.content)]
                ELSE hoped
  IN  IF r.blank THEN st
      ELSE IF r.current_activity = "None"
        THEN [st EXCEPT !.current_grade = r.current_grade]
      ELSE [st EXCEPT !.current_grade = r.current_grade,
                      !.current_activity = r.current_activity,
                      !.gyeolgwa = IF DictHas(st.gyeolgwa, key)
                                   THEN DictSet(st.gyeolgwa, key, merged)
                                   ELSE Append(st.gyeolgwa, <<key, item_base>>)]

\* Lines 189-257: the locals after a row that says r.
TableRowApply(st, r) ==
  LET key == <<r.current_grade, r.current_activity>>
      item_base == IF r.current_activity = "jinro"
                   THEN [category |-> r.current_activity, grade |-> r.current_grade,
                         original_text |-> SeedText(r.content),
                         career_hope |-> r.career_hope]
                   ELSE [category |-> r.current_activity, grade |-> r.current_grade,
                         original_text |-> SeedText(r.content)]
      old == DictGet(st.gyeolgwa, key, item_base)
      hoped == IF r.current_activity = "jinro" /\ r.career_hope \notin {None, <<>>}
                  /\ old.career_hope \in {None, <<>>}
               THEN [old EXCEPT !.career_hope = r.career_hope] ELSE old
      merged == IF r.content # <<>>
                THEN [hoped EXCEPT !.original_text = MergedText(old.original_text, r.content)]
                ELSE hoped
  IN  IF r.blank THEN st
      ELSE IF r.current_activity = "None"
        THEN [st EXCEPT !.current_grade = r.current_grade]
      ELSE [st EXCEPT !.current_grade = r.current_grade,
                      !.current_activity = r.current_activity,
                      !.gyeolgwa = IF DictHas(st.gyeolgwa, key)
                                   THEN DictSet(st.gyeolgwa, key, merged)
                                   ELSE Append(st.gyeolgwa, <<key, item_base>>)]

\* Lines 169-257: one row of a 창체 table.
TableRow(st, row) == IF row = <<>> THEN st ELSE TableRowApply(st, TableRowParts(st, row))

\* Lines 165-167: the table's flattened cells hold one of the labels.
TableIsChangche(table) ==
  \E i \in 1..Len(table) : \E j \in 1..Len(table[i]) :
    \E t \in ActivityTypes : t \in Range(table[i][j])

\* Lines 160-257: one table of a page that is processed.
TableTable(st, table) ==
  IF table = <<>> \/ ~TableIsChangche(table) THEN st ELSE Fold(TableRow, st, table)

\* Lines 144-153: 창체_시작됨 after the page's text has been looked at; `title`
\* and `next` say whether the text matches the section title and a
\* next-section title (봉사활동실적, 교과학습발달상황).
TableFlag(sijak, title, next) ==
  LET s1 == sijak \/ title
  IN  IF s1 /\ next THEN FALSE ELSE s1

\* Lines 155-157: whether the page's tables are processed.
TablePageOn(sijak, title) == sijak \/ title

\* Lines 141-257: one page.
TablePage(st, page) ==
  LET s1 == [st EXCEPT !.changche_sijakdoem = TableFlag(@, page.title, page.next)]
  IN  IF TablePageOn(s1.changche_sijakdoem, page.title)
      THEN Fold(TableTable, s1, page.tables) ELSE s1

\* sorted(..., key=...): a stable insertion sort by Key.
SortedBy(items, Key(_)) ==
  LET Ins(acc, x) ==
        LET after == {i \in 1..Len(acc) : Key(acc[i]) > Key(x)}
            k == IF after = {} THEN Len(acc) + 1 ELSE Min(after)
        IN  SubSeq(acc, 1, k - 1) \o <<x>> \o SubSeq(acc, k, Len(acc))
  IN  Fold(Ins, <<>>, items)

TableUnsorted(gyeolgwa) == [i \in 1..Len(gyeolgwa) |-> gyeolgwa[i][2]]
\* Lines 259-264: 결과.values() sorted by (grade, 순서[category]); the pair is
\* compared as 10 * grade + rank, the ranks being below 10.
TableSorted(gyeolgwa) ==
  LET SortKey(x) == 10 * x.grade + Sunseo(x.category)
  IN  SortedBy([i \in 1..Len(gyeolgwa) |-> gyeolgwa[i][2]], SortKey)

\* _창체_테이블_파싱(pdf), on the pages of the document.
ChangcheTableParsing(pages) == TableSorted(Fold(TablePage, TableInit, pages).gyeolgwa)

-----------------------------------------------------------------------------
(* Regular expressions over a text.  Places are counted from 1; a match is  *)
(* given by the places of its first and last element.                       *)

Digits == {DigitChars[i] : i \in 1..10}

\* The element at place p, or "" when the text has no such place.
At(s, p) == IF p \in 1..Len(s) THEN s[p] ELSE ""

\* The length of the longest run of elements of S that starts at place p:
\* how far \s* or \d+ reaches.
RunLen(s, p, S) ==
  IF p > Len(s) THEN 0
  ELSE LET stops == {j \in p..Len(s) : s[j] \notin S}
       IN  IF stops = {} THEN Len(s) - p + 1 ELSE Min(stops) - p

\* The place after the whitespace that starts at place p.
SkipWs(s, p) == p + RunLen(s, p, Whitespace)

\* s[:k - 1] when K is the set of places where a pattern is found and k its
\* least element; s when K is empty.
CutBefore(s, K) == IF K = {} THEN s ELSE SubSeq(s, 1, Min(K) - 1)

\* The numbers of a set, in ascending order: the matches of finditer.
RECURSIVE Ascending(_)
Ascending(S) == IF S = {} THEN <<>> ELSE <<Min(S)>> \o Ascending(S \ {Min(S)})

\* The places of the element t.
PlacesOf(s, t) == {i \in 1..Len(s) : s[i] = t}

\* \n\d+\.\s*(w1|w2|...) found at place i, words being the elements whose
\* text starts with one of w1, w2, ...
NumberedHeadAt(s, i, words) ==
  /\ s[i] = "\n"
  /\ RunLen(s, i + 1, Digits) >= 1
  /\ At(s, i + 1 + RunLen(s, i + 1, Digits)) = "."
  /\ At(s, SkipWs(s, i + 2 + RunLen(s, i + 1, Digits))) \in words

\* _공백_정제(text): runs of blanks, tabs and \r become one blank; then strip.
RECURSIVE CollapseBlanks(_)
CollapseBlanks(s) ==
  IF s = <<>> THEN <<>>
  ELSE IF Head(s) \in {" ", "\t", "\r"}
    THEN <<" ">> \o CollapseBlanks(SubSeq(s, 1 + RunLen(s, 1, {" ", "\t", "\r"}), Len(s)))
  ELSE <<Head(s)>> \o CollapseBlanks(Tail(s))

GongbaekJeongje(text) == Strip(CollapseBlanks(text))

\* _섹션_추출, the part after the start pattern has been found: the text from
\* the place after the match.
SectionBody(full_text, m_end) == SubSeq(full_text, m_end + 1, Len(full_text))

\* A regular expression written as the list of its alternatives, each a
\* literal: a|ab is << <<"a">>, <<"a", "b">> >>. The alternative alt matches
\* in text right after its first i characters.
AltAt(alt, text, i) ==
  i + Len(alt) <= Len(text) /\ SubSeq(text, i + 1, i + Len(alt)) = alt

MatchAt(pattern, text, i) == \E k \in 1..Len(pattern) : AltAt(pattern[k], text, i)

\* re.search(pattern, text): None, or the match at the leftmost place where
\* an alternative matches, of the first alternative that matches there;
\* start and end as m.start() and m.end().
NoMatch == [found |-> FALSE, start |-> 0, end |-> 0]
Search(pattern, text) ==
  IF \A i \in 0..Len(text) : ~MatchAt(pattern, text, i) THEN NoMatch
  ELSE LET i == Min({j \in 0..Len(text) : MatchAt(pattern, text, j)})
           k == Min({a \in 1..Len(pattern) : AltAt(pattern[a], text, i)})
       IN  [found |-> TRUE, start |-> i, end |-> i + Len(pattern[k])]

\* _섹션_추출 with body taken from m_start.start(): the start match is kept.
SeksyeonChuchulFromStart(full_text, sijak_pattern, jongryo_pattern) ==
  LET m_start == Search(sijak_pattern, full_text)
  IN  IF ~m_start.found THEN <<>>
      ELSE LET body  == SectionBody(full_text, m_start.start)
               m_end == Search(jongryo_pattern, body)
           IN  IF m_end.found THEN SubSeq(body, 1, m_end.start) ELSE body

\* _섹션_추출(full_text, 시작_패턴, 종료_패턴)
SeksyeonChuchul(full_text, sijak_pattern, jongryo_pattern) ==
  LET m_start == Search(sijak_pattern, full_text)
  IN  IF ~m_start.found THEN <<>>
      ELSE LET body  == SectionBody(full_text, m_start.end)
               m_end == Search(jongryo_pattern, body)
           IN  IF m_end.found THEN SubSeq(body, 1, m_end.start) ELSE body

-----------------------------------------------------------------------------
(* _창체_파싱: the text fallback of the activity extractor *)

\* The elements whose text starts with 봉사활동, 교과학습, 독서활동, 행동특성.
BongsaWords == {"bongsahwaldong", "bongsa_siljeok"}
GyogwaWords == {"gyogwahakseup", "gyogwa_title"}
DokseoWords == {"dokseohwaldong"}
HaengteukWords == {"haengdongteukseong", "haengteuk_title"}

\* Lines 287-293: the block from the section title to the end pattern, a
\* numbered 봉사활동 / 교과학습 / 독서활동 / 행동특성 header or 봉사활동실적.
ChangcheCut(body) ==
  CutBefore(body, {i \in 1..Len(body) :
    \/ NumberedHeadAt(body, i, BongsaWords \cup GyogwaWords \cup DokseoWords \cup HaengteukWords)
    \/ body[i] = "bongsa_siljeok"})

ChangcheSection(full_text) ==
  IF PlacesOf(full_text, "changche_title") = {} THEN <<>>
  ELSE ChangcheCut(SectionBody(full_text, Min(PlacesOf(full_text, "changche_title"))))

\* 분할_패턴 \n(\d)?\s*(자율활동|동아리활동|진로활동)\s+(\d+)\s*\n with its
\* category at place p, after g grade digits; the last \s* reaches to the last
\* newline of the whitespace that follows the hours.
BoundaryTail(s, i, g, p) ==
  LET w == RunLen(s, p + 1, Whitespace)
      d == RunLen(s, p + 1 + w, Digits)
      nl == {j \in (p + w + d + 1)..(p + w + d + RunLen(s, p + w + d + 1, Whitespace)) :
               s[j] = "\n"}
  IN  IF w = 0 \/ d = 0 \/ nl = {} THEN {}
      ELSE {[start |-> i, end |-> Max(nl), grade |-> IF g = 1 THEN s[i + 1] ELSE "",
             category |-> s[p]]}

\* The match of 분할_패턴 that starts at place i, if there is one.
BoundaryAt(s, i) ==
  IF s[i] # "\n" THEN {}
  ELSE IF IsDigit(At(s, i + 1))
    THEN IF At(s, SkipWs(s, i + 2)) \in ActivityTypes
         THEN BoundaryTail(s, i, 1, SkipWs(s, i + 2)) ELSE {}
  ELSE IF At(s, SkipWs(s, i + 1)) \in ActivityTypes
         THEN BoundaryTail(s, i, 0, SkipWs(s, i + 1)) ELSE {}

\* Line 306: 분할_패턴.finditer from place `from` on; a match starts after the
\* end of the one before.
RECURSIVE BoundaryMatches(_, _)
BoundaryMatches(s, from) ==
  LET starts == {i \in from..Len(s) : BoundaryAt(s, i) # {}}
  IN  IF starts = {} THEN <<>>
      ELSE <<CHOOSE m \in BoundaryAt(s, Min(starts)) : TRUE>>
             \o BoundaryMatches(s, (CHOOSE m \in BoundaryAt(s, Min(starts)) : TRUE).end + 1)

\* The grades with current_grade set back to 1 by a match without a digit.
SegmentGradesReset(matches) ==
  [i \in 1..Len(matches) |->
     IF matches[i].grade # "" THEN DigitVal(matches[i].grade) ELSE 1]

\* Lines 308-314: the grade of each match; a match without a digit keeps the
\* grade of the one before, the first one grade 1.
SegmentGrades(matches) ==
  LET g[i \in 0..Len(matches)] ==
        IF i = 0 THEN 1
        ELSE IF matches[i].grade # "" THEN DigitVal(matches[i].grade) ELSE g[i - 1]
  IN  [i \in 1..Len(matches) |-> g[i]]

\* Lines 327-328: the segments, each with 블록[start:end] as its body.
Segments(s, matches, grades) ==
  [i \in 1..Len(matches) |->
     [grade |-> grades[i], category |-> matches[i].category,
      body |-> SubSeq(s, matches[i].end + 1,
                      IF i < Len(matches) THEN matches[i + 1].start - 1 ELSE Len(s)),
      first |-> i = 1,
      last |-> i = Len(matches),
      next_category |-> IF i < Len(matches) THEN matches[i + 1].category ELSE ""]]

\* Lines 336-350 for a segment whose text is c, cut at 봉사활동실적 already: the
\* text it keeps and the text it hands to the next segment.
Reassign(seg, c, club) ==
  LET kept == CutBefore(c, club)
      hdr == IF ~seg.first /\ ~seg.last THEN PlacesOf(kept, "changche_title") ELSE {}
  IN  [content_raw |-> CutBefore(kept, hdr),
       pending |-> IF hdr # {} THEN SubSeq(kept, Min(hdr) + 1, Len(kept))
                   ELSE IF club # {} THEN SubSeq(c, Min(club), Len(c))
                   ELSE <<>>]

\* The places where 클럽_마커 is looked for and found in the text c of a segment.
ClubPlaces(seg, c) ==
  IF seg.category = "jayul" /\ seg.next_category = "dongari"
  THEN PlacesOf(c, "club_marker") ELSE {}

RawStepCut(acc, seg, c) ==
  [raws |-> Append(acc.raws, [grade |-> seg.grade, category |-> seg.category,
                              content_raw |-> Reassign(seg, c, ClubPlaces(seg, c)).content_raw]),
   pending |-> Reassign(seg, c, ClubPlaces(seg, c)).pending]

\* Lines 327-352: one turn of the loop of stage 1.
RawStep(acc, seg) ==
  RawStepCut(acc, seg, CutBefore(acc.pending \o seg.body,
                                 PlacesOf(acc.pending \o seg.body, "bongsa_siljeok")))

\* Lines 359-370: a line stage 2 drops.
FallbackNoise(line_s) == ChangcheNoise(line_s) \/ Head(line_s) = "huimang"

\* Lines 356-373
FallbackContent(content_raw) ==
  LET pieces == Split(content_raw, "\n")
      lines  == [i \in 1..Len(pieces) |-> Strip(pieces[i])]
  IN  Strip(Join(<<" ">>, SelectSeq(lines, LAMBDA l : ~FallbackNoise(l))))

FallbackTextInclusive(content) == IF Len(content) >= ChangcheMinLen THEN content ELSE None
\* Lines 375-378
FallbackText(content) == IF Len(content) > ChangcheMinLen THEN content ELSE None

\* Lines 355-378: the record of a segment.
FallbackRecord(raw) ==
  [category |-> raw.category, grade |-> raw.grade,
   original_text |-> FallbackText(FallbackContent(raw.content_raw))]

\* Lines 297-380, on the block with its \r removed.
ChangcheBlockParsing(s, matches) ==
  IF matches = <<>> THEN <<>>
  ELSE LET raws == Fold(RawStep,
                        [raws |-> <<>>, pending |-> SubSeq(s, 1, matches[1].start - 1)],
                        Segments(s, matches, SegmentGrades(matches))).raws
       IN  [i \in 1..Len(raws) |-> FallbackRecord(raws[i])]

\* _창체_파싱(full_text)
ChangcheParsing(full_text) ==
  ChangcheBlockParsing(Remove(ChangcheSection(full_text), "\r"),
                       BoundaryMatches(Remove(ChangcheSection(full_text), "\r"), 1))

-----------------------------------------------------------------------------
(* _세특_파싱: the subject-remark extractor *)

\* The subject threshold of line 477, the cap of line 483, the longest
\* subject name of line 461 and the least offset of a first grade header
\* that has a block before it (line 433).
SeteukMinLen == 20
MaxTextLen == 3000
MaxNameLen == 30
PreBlockMin == 200

Semesters == {"(1hakgi)", "(2hakgi)"}
GradeHeaders == {"[1haknyeon]", "[2haknyeon]", "[3haknyeon]"}
HeaderGrade(t) ==
  CASE t = "[1haknyeon]" -> 1 [] t = "[2haknyeon]" -> 2 [] t = "[3haknyeon]" -> 3

\* [ and its full-width form, ] and its full-width form, : and its full-width form
Openers == {"[", "lenticular_open"}
Closers == {"]", "lenticular_close"}
Colons == {":", "fullwidth_colon"}

\* The length of the run of whitespace that ends just before place p.
WsBack(s, p) ==
  LET stops == {j \in 1..(p - 1) : s[j] \notin Whitespace}
  IN  IF stops = {} THEN p - 1 ELSE p - 1 - Max(stops)

\* Lines 405-418: the end pattern, a numbered 독서활동 / 행동특성 header.
SeteukCut(body) ==
  CutBefore(body, {i \in 1..Len(body) :
                     NumberedHeadAt(body, i, DokseoWords \cup HaengteukWords)})

SeteukFallback(full_text) ==
  IF PlacesOf(full_text, "(1hakgi)") = {} THEN <<>>
  ELSE SeteukCut(SubSeq(full_text, Min(PlacesOf(full_text, "(1hakgi)")), Len(full_text)))

SeteukPrimary(full_text) ==
  IF PlacesOf(full_text, "seteuk_title") = {} THEN <<>>
  ELSE SeteukCut(SectionBody(full_text, Min(PlacesOf(full_text, "seteuk_title"))))

\* 세특_전체: the section after its title or, when that gives nothing, the text
\* from the first (1학기) on.
SeteukSection(full_text) ==
  IF SeteukPrimary(full_text) # <<>> THEN SeteukPrimary(full_text)
  ELSE SeteukFallback(full_text)

\* The blocks with the block before the first header taken from offset
\* PreBlockMin on.
SeteukBlocksAtFrom(s, H) ==
  LET hs == Ascending(H)
      EndOf(h) == IF At(s, h + 1) = "\r" THEN h + 1 ELSE h
      blocks == [i \in 1..Len(hs) |->
                   [grade |-> HeaderGrade(s[hs[i]]),
                    text |-> SubSeq(s, EndOf(hs[i]) + 1,
                                    IF i < Len(hs) THEN hs[i + 1] - 1 ELSE Len(s))]]
  IN  IF H = {} THEN <<[grade |-> 1, text |-> s]>>
      ELSE IF Min(H) - 1 >= PreBlockMin
        THEN <<[grade |-> IF HeaderGrade(s[Min(H)]) - 1 >= 1
                          THEN HeaderGrade(s[Min(H)]) - 1 ELSE 1,
                 text |-> SubSeq(s, 1, Min(H) - 1)]>> \o blocks
      ELSE blocks

\* Lines 422-440: the blocks <<grade, text>> of the section; H is the set of
\* places of its [N학년] headers.
SeteukBlocksAt(s, H) ==
  LET hs == Ascending(H)
      EndOf(h) == IF At(s, h + 1) = "\r" THEN h + 1 ELSE h
      blocks == [i \in 1..Len(hs) |->
                   [grade |-> HeaderGrade(s[hs[i]]),
                    text |-> SubSeq(s, EndOf(hs[i]) + 1,
                                    IF i < Len(hs) THEN hs[i + 1] - 1 ELSE Len(s))]]
  IN  IF H = {} THEN <<[grade |-> 1, text |-> s]>>
      ELSE IF Min(H) - 1 > PreBlockMin
        THEN <<[grade |-> IF HeaderGrade(s[Min(H)]) - 1 >= 1
                          THEN HeaderGrade(s[Min(H)]) - 1 ELSE 1,
                 text |-> SubSeq(s, 1, Min(H) - 1)]>> \o blocks
      ELSE blocks

SeteukBlocks(s) == SeteukBlocksAt(s, {i \in 1..Len(s) : s[i] \in GradeHeaders})

\* (?:\s*[\[【][^】\]]*[\]】])?\s*[:：] tried from place p: the place of the colon,
\* or 0 when it does not match there.
ColonFrom(s, p) ==
  LET q == SkipWs(s, p)
      cl == {j \in (q + 1)..Len(s) : s[j] \in Closers}
  IN  IF At(s, q) \in Colons THEN q
      ELSE IF At(s, q) \in Openers /\ cl # {}
                /\ At(s, SkipWs(s, Min(cl) + 1)) \in Colons
        THEN SkipWs(s, Min(cl) + 1)
      ELSE 0

\* \s*(.+?) after the colon at place c: the place where the content starts, the
\* first one after the whitespace or, when the text ends there, the last
\* whitespace; 0 when nothing follows the colon.
ContentStart(s, c) ==
  IF c + RunLen(s, c + 1, Whitespace) + 1 <= Len(s) THEN c + RunLen(s, c + 1, Whitespace) + 1
  ELSE IF RunLen(s, c + 1, Whitespace) >= 1 THEN c + RunLen(s, c + 1, Whitespace)
  ELSE 0

\* (.+?)(?=\(\d학기\)|\Z): the place where the content that starts at `from`
\* ends, before the next semester mark or at the end of the text.
ContentEnd(s, from) ==
  Min({e \in from..Len(s) : e = Len(s) \/ s[e + 1] \in Semesters})

SubjectMatchWith(s, i, k, c) ==
  [start |-> i, end |-> ContentEnd(s, ContentStart(s, c)),
   subject_raw |-> SubSeq(s, i + 1, k),
   content_raw |-> SubSeq(s, ContentStart(s, c), ContentEnd(s, ContentStart(s, c)))]

\* 과목_패턴 at a semester mark at place i: the subject runs to the first place
\* from which the rest of the pattern matches.
SubjectMatchAt(s, i) ==
  IF s[i] \notin Semesters THEN {}
  ELSE LET ks == {k \in i..Len(s) : /\ ColonFrom(s, k + 1) # 0
                                    /\ ContentStart(s, ColonFrom(s, k + 1)) # 0}
       IN  IF ks = {} THEN {}
           ELSE {SubjectMatchWith(s, i, Min(ks), ColonFrom(s, Min(ks) + 1))}

\* 과목_패턴.finditer(블록)
RECURSIVE SubjectMatches(_, _)
SubjectMatches(s, from) ==
  LET starts == {i \in from..Len(s) : SubjectMatchAt(s, i) # {}}
  IN  IF starts = {} THEN <<>>
      ELSE <<CHOOSE m \in SubjectMatchAt(s, Min(starts)) : TRUE>>
             \o SubjectMatches(s, (CHOOSE m \in SubjectMatchAt(s, Min(starts)) : TRUE).end + 1)

\* re.sub(r"\s*[\[【][^】\]]*[\]】]\s*", "", subject_raw)
RECURSIVE RemoveBracketed(_)
RemoveBracketed(s) ==
  LET ops == {i \in 1..Len(s) : s[i] \in Openers /\ \E j \in (i + 1)..Len(s) : s[j] \in Closers}
      i == Min(ops)
      q == Min({j \in (i + 1)..Len(s) : s[j] \in Closers})
  IN  IF ops = {} THEN s
      ELSE SubSeq(s, 1, i - 1 - WsBack(s, i))
             \o RemoveBracketed(SubSeq(s, SkipWs(s, q + 1), Len(s)))

\* Lines 455-460
SubjectName(subject_raw) == GongbaekJeongje(RemoveBracketed(GongbaekJeongje(subject_raw)))

\* Lines 467-473: a line of a subject's content that is dropped.
SeteukNoise(line_s) ==
  \/ line_s = <<>>
  \/ Bigonggae(line_s)
  \/ MunseoKkori(line_s)
  \/ line_s \in {<<"gwamok">>, <<"sebuneungnyeok">>}

\* Lines 465-476
SeteukContent(content_raw) ==
  LET pieces == Split(content_raw, "\n")
      lines  == [i \in 1..Len(pieces) |-> Strip(pieces[i])]
  IN  Strip(Join(<<" ">>, SelectSeq(lines, LAMBDA l : ~SeteukNoise(l))))

SeteukKeptOver(content) == Len(content) > SeteukMinLen
\* Line 477: whether an entry with the filtered content `content` is kept.
SeteukKept(content) == ~(Len(content) < SeteukMinLen)

\* Lines 454-484: the records of one match, none or one.
SubjectRecord(grade, name, content) ==
  IF name = <<>> \/ Len(name) > MaxNameLen \/ ~SeteukKept(content) THEN <<>>
  ELSE <<[grade |-> grade, subject_name |-> name,
          original_text |-> SubSeq(content, 1, Min({Len(content), MaxTextLen}))]>>

SubjectOfMatch(grade, m) ==
  SubjectRecord(grade, SubjectName(m.subject_raw), SeteukContent(m.content_raw))

\* Lines 443-484: the records of one block.
SeteukBlock(block) ==
  IF Bigonggae(block.text) THEN <<>>
  ELSE LET ms == SubjectMatches(block.text, 1)
       IN  FlatMap(LAMBDA m : SubjectOfMatch(block.grade, m), ms)

\* _세특_파싱(full_text)
SeteukParsing(full_text) ==
  IF SeteukSection(full_text) = <<>> THEN <<>>
  ELSE FlatMap(SeteukBlock, SeteukBlocks(SeteukSection(full_text)))

-----------------------------------------------------------------------------
(* _행특_파싱: the behavior-remark extractor *)

\* The behavior threshold of line 556.
HaengteukMinLen == 20

\* The elements that are not a Hangul syllable and do not start with one:
\* whitespace, digits, punctuation and the marks that open with one.
NonHangul ==
  Whitespace \cup Digits \cup Openers \cup Closers \cup Colons \cup Semesters
    \cup GradeHeaders \cup {"", ".", "/", "(", ")", "club_marker", "ip_address"}

\* \d+\.\s*행동특성및종합의견: the places of the titles the start pattern ends at.
HaengteukTitles(s) ==
  {t \in PlacesOf(s, "haengteuk_title") :
     /\ At(s, t - 1 - WsBack(s, t)) = "."
     /\ IsDigit(At(s, t - 2 - WsBack(s, t)))}

\* The end pattern \n\d+\.\s*[가-힣] found at place i.
NumberedHangulAt(s, i) ==
  /\ s[i] = "\n"
  /\ RunLen(s, i + 1, Digits) >= 1
  /\ At(s, i + 1 + RunLen(s, i + 1, Digits)) = "."
  /\ At(s, SkipWs(s, i + 2 + RunLen(s, i + 1, Digits))) \notin NonHangul

HaengteukCut(body) == CutBefore(body, {i \in 1..Len(body) : NumberedHangulAt(body, i)})

\* Lines 509-515
HaengteukSection(full_text) ==
  IF HaengteukTitles(full_text) = {} THEN <<>>
  ELSE HaengteukCut(SectionBody(full_text, Min(HaengteukTitles(full_text))))

\* Line 518: the place after the column header 학년 행동특성 및 종합의견 that
\* starts at place i, 학년 and the title with whitespace between them, and 0
\* where no header starts.
HeaderEnd(s, i) ==
  IF /\ s[i] = "haknyeon"
     /\ RunLen(s, i + 1, Whitespace) >= 1
     /\ At(s, SkipWs(s, i + 1)) = "haengteuk_title"
  THEN SkipWs(s, i + 1) + 1
  ELSE 0

HeaderPlaces(s) == {i \in 1..Len(s) : HeaderEnd(s, i) > 0}

\* Line 518: every header goes, with the whitespace after it.
RECURSIVE RemoveHeader(_)
RemoveHeader(s) ==
  IF HeaderPlaces(s) = {} THEN s
  ELSE SubSeq(s, 1, Min(HeaderPlaces(s)) - 1)
         \o RemoveHeader(SubSeq(s, SkipWs(s, HeaderEnd(s, Min(HeaderPlaces(s)))), Len(s)))

\* The lookahead (?=\s*\n|\s+[^\/\d]) at place p, r being the length of the
\* whitespace that starts there.
GradeLookahead(s, p, r) ==
  \/ \E j \in p..(p + r - 1) : s[j] = "\n"
  \/ r >= 2
  \/ r = 1 /\ p + 1 <= Len(s) /\ s[p + 1] \notin Digits \cup {"/"}

\* Lines 523-532: the places of the digits 1 to 3 the grade pattern matches, a
\* digit at the start of a line with the lookahead after it.
GradeDigits(s) ==
  {d \in 1..Len(s) :
     /\ s[d] \in {"1", "2", "3"}
     /\ (d = 1 \/ s[d - 1] = "\n")
     /\ GradeLookahead(s, d + 1, RunLen(s, d + 1, Whitespace))}

\* Lines 547-552: a line of a behavior block that is dropped.
HaengteukNoise(line_s) ==
  \/ line_s = <<>>
  \/ Bigonggae(line_s)
  \/ MunseoKkori(line_s)
  \/ line_s \in {<<"haknyeon">>, <<"ban">>, <<"beonho">>, <<"ireum">>}
  \/ /\ line_s[Len(line_s)] = "ban"
     /\ RunLen(line_s, 1, Digits) >= 1
     /\ SkipWs(line_s, 1 + RunLen(line_s, 1, Digits)) = Len(line_s)

\* Lines 544-555
HaengteukContent(content_raw) ==
  LET pieces == Split(content_raw, "\n")
      lines  == [i \in 1..Len(pieces) |-> Strip(pieces[i])]
  IN  Strip(Join(<<" ">>, SelectSeq(lines, LAMBDA l : ~HaengteukNoise(l))))

HaengteukKeptInclusive(content) == Len(content) >= HaengteukMinLen
\* Line 556: whether a block with the filtered content `content` is kept.
HaengteukKept(content) == Len(content) > HaengteukMinLen

\* Lines 555-560: the records of one block, none or one.
BehaviorRecord(grade, content) ==
  IF HaengteukKept(content)
  THEN <<[grade |-> grade,
          original_text |-> SubSeq(content, 1, Min({Len(content), MaxTextLen}))]>>
  ELSE <<>>

\* Lines 534-560: the records of the i-th block, none or one; ds holds the
\* places of the grade digits in ascending order, a block running from its
\* digit to the newline before the next one.
HaengteukBlock(s, ds, i) ==
  BehaviorRecord(DigitVal(s[ds[i]]),
                 HaengteukContent(SubSeq(s, ds[i] + 1,
                                         IF i < Len(ds) THEN ds[i + 1] - 2 ELSE Len(s))))

\* The records of the blocks, in document order.
HaengteukBlocks(s, ds) ==
  LET f[i \in 0..Len(ds)] == IF i = 0 THEN <<>> ELSE f[i - 1] \o HaengteukBlock(s, ds, i)
  IN  f[Len(ds)]

KeepAllGrades(records) == records
\* Lines 562-570: the first record of each grade.
FirstOfGrade(records) ==
  SelectSeq([i \in 1..Len(records) |->
               IF \E j \in 1..(i - 1) : records[j].grade = records[i].grade
               THEN <<>> ELSE records[i]],
            LAMBDA r : r # <<>>)

HaengteukBlockParsing(s) == FirstOfGrade(HaengteukBlocks(s, Ascending(GradeDigits(s))))

\* _행특_파싱(full_text)
HaengteukParsing(full_text) ==
  IF HaengteukSection(full_text) = <<>> THEN <<>>
  ELSE HaengteukBlockParsing(RemoveHeader(HaengteukSection(full_text)))

-----------------------------------------------------------------------------
(* parse_pdf.  A document is the sequence of its pages; a page is what       *)
(* pdfplumber gives for it: text, the value of extract_text() (None for a    *)
(* page without a text layer), and tables, the value of extract_tables().    *)

\* The guard threshold of line 607.
GuardMinLen == 50

\* p.extract_text() or ""
PageText(page) == IF page.text = None THEN <<>> ELSE page.text

\* Line 606: the text of the first two pages, joined and stripped.
GuardSample(pages) ==
  Strip(Join(<<>>, [i \in 1..Min({2, Len(pages)}) |-> PageText(pages[i])]))

GuardRaisesInclusive(sample) == Len(sample) <= GuardMinLen
\* Line 607: whether the document is rejected as image-based.
GuardRaises(sample) == Len(sample) < GuardMinLen

\* Lines 142-153: the page as _창체_테이블_파싱 looks at it.
TablePageOf(page) ==
  [title |-> "changche_title" \in Range(PageText(page)),
   next |-> Range(PageText(page)) \cap {"bongsa_siljeok", "gyogwa_title"} # {},
   tables |-> page.tables]

\* Line 612
ParsePdfActivities(pages) ==
  ChangcheTableParsing([i \in 1..Len(pages) |-> TablePageOf(pages[i])])

\* Lines 619-624: the name a row gives, the cell after the first 이름 cell that
\* has a non-empty cell after it; None when the row has no such cell.
RowName(cells) ==
  LET hits == {i \in 1..(Len(cells) - 1) : cells[i] = <<"ireum">> /\ cells[i + 1] # <<>>}
  IN  IF hits = {} THEN None ELSE cells[Min(hits) + 1]

\* The rows of the document's tables, in document order.
PageRows(page) == Join(<<>>, page.tables)
AllRows(pages) == Join(<<>>, [i \in 1..Len(pages) |-> PageRows(pages[i])])

\* Lines 615-629: the name of the first row that gives one.
NameLookup(pages) ==
  LET names == SelectSeq([i \in 1..Len(AllRows(pages)) |->
                            RowName([j \in 1..Len(AllRows(pages)[i]) |->
                                       Strip(IF AllRows(pages)[i][j] = None THEN <<>>
                                             ELSE AllRows(pages)[i][j])])],
                         LAMBDA n : n # None)
  IN  IF names = <<>> THEN None ELSE names[1]

\* Line 632
FullText(pages) == Join(<<"\n">>, [i \in 1..Len(pages) |-> PageText(pages[i])])

\* The locals of parse_pdf before line 612.
NoResult(filename) ==
  [student_name |-> None, activities |-> <<>>, subjects |-> <<>>, behaviors |-> <<>>,
   source_pdf |-> filename]

\* Lines 612-629: the locals after the tables have been read.
ParsePdfTables(out, pages) ==
  [out EXCEPT !.activities = ParsePdfActivities(pages),
              !.student_name = NameLookup(pages)]

NoFallback(activities, full_text) == activities
FallbackOnNull(activities, full_text) ==
  IF \A i \in 1..Len(activities) : activities[i].original_text = None
  THEN ChangcheParsing(full_text) ELSE activities
\* Lines 638-639
Fallback(activities, full_text) ==
  IF activities = <<>> THEN ChangcheParsing(full_text) ELSE activities

\* Lines 632-647: the returned dict.
ParsePdfTexts(out, full_text) ==
  [out EXCEPT !.subjects = SeteukParsing(full_text),
              !.behaviors = HaengteukParsing(full_text),
              !.activities = Fallback(out.activities, full_text)]

-----------------------------------------------------------------------------
(* app/services/client_service.py *)

\* The client store before an upload.
EmptyClientDb == [students |-> <<>>, activities |-> <<>>, subjects |-> <<>>, behaviors |-> <<>>]

\* Lines 36-44
UserStudent(filename) == [name |-> "mihwagin", source_file |-> filename]

\* Lines 47-56; ae.get("career_hope") is None for a record without the key.
UserActivity(ae) ==
  [category |-> ae.category, grade |-> ae.grade,
   career_hope |-> IF "career_hope" \in DOMAIN ae THEN ae.career_hope ELSE None,
   original_text |-> ae.original_text, evaluation |-> None, reason |-> None]

\* Lines 60-67
UserSubject(se) ==
  [grade |-> se.grade, subject_name |-> se.subject_name,
   original_text |-> se.original_text, evaluation |-> None, reason |-> None]

\* Lines 71-77
UserBehavior(be) ==
  [grade |-> be.grade, original_text |-> be.original_text,
   evaluation |-> None, reason |-> None]

\* 클라이언트_생기부_저장, after parse_pdf has returned pdf_data.
ClientSaenggibuJeojang(cdb, data, filename) ==
  [students |-> Append(cdb.students, UserStudent(filename)),
   activities |-> cdb.activities
                    \o [i \in 1..Len(data.activities) |-> UserActivity(data.activities[i])],
   subjects |-> cdb.subjects
                  \o [i \in 1..Len(data.subjects) |-> UserSubject(data.subjects[i])],
   behaviors |-> cdb.behaviors
                   \o [i \in 1..Len(data.behaviors) |-> UserBehavior(data.behaviors[i])]]

-----------------------------------------------------------------------------
(* app/routers/reference.py upload_pdf, after parse_pdf has returned.  A     *)
(* column that is NULL (a RefStudent's source_yaml, an evaluation never set)  *)
(* is "None" for a file name and None for a text.                             *)

\* The sentinel 미확인 as a text.
Mihwagin == <<"mi", "hwag", "in">>

\* Path(filename).stem
Stem(filename) ==
  CASE filename \in {"s1.pdf", "s1.yaml"} -> "s1"
    [] filename \in {"s2.pdf", "s2.yaml"} -> "s2"
    [] OTHER -> filename

\* Line 171: source_yaml LIKE '<stem>.%'; a NULL source_yaml matches nothing.
StemLike(source_yaml, stem) == source_yaml # "None" /\ Stem(source_yaml) = stem

\* Lines 176-200: the first row with the item's key, if any, takes the item's
\* text; the other rows and columns are left as they are.
SetOriginal(rows, hits, text) ==
  IF hits = {} THEN rows
  ELSE [rows EXCEPT ![Min(hits)] = [@ EXCEPT !.original_text = text]]

MatchActivity(rows, item) ==
  SetOriginal(rows,
              {i \in 1..Len(rows) :
                 rows[i].category = item.category /\ rows[i].grade = item.grade},
              item.original_text)
MatchSubject(rows, item) ==
  SetOriginal(rows,
              {i \in 1..Len(rows) :
                 rows[i].grade = item.grade /\ rows[i].subject_name = item.subject_name},
              item.original_text)
MatchBehavior(rows, item) ==
  SetOriginal(rows, {i \in 1..Len(rows) : rows[i].grade = item.grade}, item.original_text)

\* Lines 174-203: the matched student after the update.
RefMatched(student, data, filename) ==
  [student EXCEPT !.activities = Fold(MatchActivity, @, data.activities),
                  !.subjects = Fold(MatchSubject, @, data.subjects),
                  !.behaviors = Fold(MatchBehavior, @, data.behaviors),
                  !.source_pdf = filename]

RefNewActivityBlank(item) ==
  [category |-> item.category, grade |-> item.grade,
   career_hope |-> IF "career_hope" \in DOMAIN item THEN item.career_hope ELSE None,
   original_text |-> item.original_text, evaluation |-> <<>>, reason |-> <<>>]
\* Lines 219-226; evaluation and reason are not given and stay NULL.
RefNewActivity(item) ==
  [category |-> item.category, grade |-> item.grade,
   career_hope |-> IF "career_hope" \in DOMAIN item THEN item.career_hope ELSE None,
   original_text |-> item.original_text, evaluation |-> None, reason |-> None]

\* Lines 228-234
RefNewSubject(item) ==
  [grade |-> item.grade, subject_name |-> item.subject_name,
   original_text |-> item.original_text, evaluation |-> None, reason |-> None]

\* Lines 236-241
RefNewBehavior(item) ==
  [grade |-> item.grade, original_text |-> item.original_text,
   evaluation |-> None, reason |-> None]

\* Line 211: pdf_data.get("student_name") or "미확인"
RefNewName(student_name) ==
  IF student_name = None \/ student_name = <<>> THEN Mihwagin ELSE student_name

\* Lines 210-243: the student created for a document that matches no one.
RefNew(data, filename) ==
  [name |-> RefNewName(data.student_name),
   source_pdf |-> filename, source_yaml |-> "None", career_hopes |-> <<>>,
   activities |-> [i \in 1..Len(data.activities) |-> RefNewActivity(data.activities[i])],
   subjects |-> [i \in 1..Len(data.subjects) |-> RefNewSubject(data.subjects[i])],
   behaviors |-> [i \in 1..Len(data.behaviors) |-> RefNewBehavior(data.behaviors[i])]]

\* Lines 168-243: the reference store after the upload.  first() is the
\* matching row stored first.
RefUpload(store, data, filename) ==
  LET hits == {i \in 1..Len(store) : StemLike(store[i].source_yaml, Stem(filename))}
  IN  IF hits # {}
      THEN [store EXCEPT ![Min(hits)] = RefMatched(@, data, filename)]
      ELSE Append(store, RefNew(data, filename))

-----------------------------------------------------------------------------
(* State.  Each specification below runs one part of the program and leaves *)
(* the variables of the other parts at their idle values.                   *)

VARIABLES
  y_pc,        \* SpecYaml: "loaded" before parse_yaml has run, "parsed" after
  yaml_file,   \* the decoded tree of the evaluation file (yaml.safe_load's result)
  yaml_data    \* parse_yaml's result

VARIABLES
  m_pc,          \* SpecMerge: "ready" before 레퍼런스_저장 has run, "stored" after
  pdf_data,      \* parse_pdf's result for the paired document, or NoPdf
  wonmun_index,  \* 원문_인덱스, the lookup index built from pdf_data
  db             \* the reference store: its RefStudent rows with their child rows

VARIABLES
  t_pc,       \* SpecTable: "pages" between tables, "rows" inside a table, "done"
  tb,         \* the locals of _창체_테이블_파싱: 결과, current_grade, current_activity, 창체_시작됨
  t_page_on,  \* whether the tables of the page being read are processed
  t_rows,     \* the rows of the table being read that are still to come
  t_used,     \* the number of rows read
  t_rowno,    \* the place, in its table, of the last row read (0 when none was)
  t_span,     \* whether a page read so far matched the section title and no page
              \* after that one matched a next-section title
  t_last,     \* the last row processed: its key, its content, the record it met
  t_out       \* the list _창체_테이블_파싱 returns

VARIABLES
  p_pc,    \* SpecPdf: "open", "raised", "rejected", "tables", "returned", "stored",
           \* "ref_stored", "saved_unread", "saved"
  p_doc,   \* the pages of the uploaded document
  p_out,   \* the locals of parse_pdf that make up its result
  c_db,    \* the client store
  r_db     \* the reference store the document is uploaded to

VARIABLES
  b_pc,       \* SpecStore: where upload_batch is: "idle", "loop", "deleted", "added",
              \* "except", "done", "notfound"
  b_dir,      \* yaml_files: the evaluation files of data/yaml in the order of line 64
  b_i,        \* the number of files the loop has finished
  b_results,  \* results
  b_summary,  \* the BatchLoadResult returned
  b_session,  \* the store as the session sees it, uncommitted changes included
  b_store,    \* the reference store as committed
  b_before,   \* the committed store when the batch began
  b_log,      \* the files committed so far, over all batches, oldest first
  b_round     \* the number of batches begun

VARIABLES
  x_pc,       \* SpecSection: "called" before _섹션_추출 has run, "returned" after
  x_text,     \* full_text
  x_sijak,    \* 시작_패턴
  x_jongryo,  \* 종료_패턴
  x_out       \* the string returned

yamlVars == <<y_pc, yaml_file, yaml_data>>
mergeVars == <<m_pc, pdf_data, wonmun_index, db>>
tableVars == <<t_pc, tb, t_page_on, t_rows, t_used, t_rowno, t_span, t_last, t_out>>
pdfVars == <<p_pc, p_doc, p_out, c_db, r_db>>
storeVars ==
  <<b_pc, b_dir, b_i, b_results, b_summary, b_session, b_store, b_before, b_log, b_round>>
sectionVars == <<x_pc, x_text, x_sijak, x_jongryo, x_out>>
vars == <<yamlVars, mergeVars, tableVars, pdfVars, storeVars, sectionVars>>

YamlIdle == y_pc = "idle" /\ yaml_file = EmptyTree /\ yaml_data = EmptyResult("")

MergeIdle == m_pc = "idle" /\ pdf_data = NoPdf /\ wonmun_index = EmptyIndex /\ db = <<>>

\* No row has been processed yet.
NoRow == [acted |-> FALSE, key |-> <<0, "None">>, content |-> <<>>, had |-> FALSE,
          existing |-> None]

TableIdle ==
  /\ t_pc = "idle" /\ tb = TableInit /\ t_page_on = FALSE /\ t_rows = <<>>
  /\ t_used = 0 /\ t_rowno = 0 /\ t_span = FALSE /\ t_last = NoRow /\ t_out = <<>>

PdfIdle ==
  /\ p_pc = "idle" /\ p_doc = <<>> /\ p_out = NoResult("") /\ c_db = EmptyClientDb
  /\ r_db = <<>>

SectionIdle ==
  x_pc = "idle" /\ x_text = <<>> /\ x_sijak = <<>> /\ x_jongryo = <<>> /\ x_out = <<>>

StoreIdle ==
  /\ b_pc = "idle" /\ b_dir = <<>> /\ b_i = 0 /\ b_results = <<>>
  /\ b_summary = BatchLoadResult(<<>>)
  /\ b_session = <<>> /\ b_store = <<>> /\ b_before = <<>> /\ b_log = <<>> /\ b_round = 0

-----------------------------------------------------------------------------
(* SpecYaml: parse_yaml applied to every tree of YamlTrees, the trees whose *)
(* populated section has at most MaxYamlLeaves leaves, and to the trees of *)
(* DomainTrees and ShapeTrees.                                             *)

InitYaml ==
  /\ y_pc = "loaded"
  /\ yaml_file \in YamlTrees(MaxYamlLeaves) \cup DomainTrees \cup ShapeTrees
  /\ yaml_data = EmptyResult("s1.yaml")
  /\ MergeIdle
  /\ TableIdle
  /\ PdfIdle
  /\ StoreIdle /\ SectionIdle

ParseYamlCall ==
  /\ y_pc = "loaded"
  /\ yaml_data' = ParseYaml(yaml_file, "s1.yaml")
  /\ y_pc' = "parsed"
  /\ UNCHANGED <<yaml_file, mergeVars, tableVars, pdfVars, storeVars, sectionVars>>

NextYaml == ParseYamlCall

SpecYaml == InitYaml /\ [][NextYaml]_vars

\* The entry values of a two-level section (category -> grade -> entry,
\* grade -> subject -> entry), in file order.
NestedEntryVals(section) ==
  LET Under(pair) == IF pair[2].kind = "dict"
                     THEN [i \in 1..Len(pair[2].m) |-> pair[2].m[i][2]]
                     ELSE <<>>
  IN  FlatMap(Under, section)

\* The entry values of 행동특성_및_종합의견 (grade -> entry).
BehaviorEntryVals(section) == [i \in 1..Len(section) |-> section[i][2]]

\* An entry whose evaluation is the redaction sentinel: the bare string, or a
\* mapping whose 평가내용 is it.
IsSentinelEntry(v) ==
  \/ v = YStr(Sentinel)
  \/ v.kind = "dict" /\ DictGet(v.m, "pyeongga", YNull) = YStr(Sentinel)

CountOf(s, P(_)) == Cardinality({i \in 1..Len(s) : P(s[i])})

NotSentinelEntry(v) == ~IsSentinelEntry(v)

\* C5. Redaction law: parse_yaml emits no activity, subject or behavior record
\* whose evaluation is the redaction sentinel, and an entry whose evaluation is
\* the sentinel (bare string or mapping field) emits no record at all: each
\* section holds at most one record per entry that is not such an entry.
RedactionLaw ==
  y_pc = "parsed" =>
    /\ \A r \in Range(yaml_data.activities) \cup Range(yaml_data.subjects)
                  \cup Range(yaml_data.behaviors) : r.evaluation # Sentinel
    /\ Len(yaml_data.activities)
         <= CountOf(NestedEntryVals(yaml_file.changche), NotSentinelEntry)
    /\ Len(yaml_data.subjects)
         <= CountOf(NestedEntryVals(yaml_file.seteuk), NotSentinelEntry)
    /\ Len(yaml_data.behaviors)
         <= CountOf(BehaviorEntryVals(yaml_file.haengteuk), NotSentinelEntry)

\* C5 witness: a file whose 자율활동 holds, under two valid grade keys, the bare
\* sentinel and a mapping whose 평가내용 is the sentinel, has been parsed and
\* yields no activity record.
RedactionWitness ==
  /\ y_pc = "parsed"
  /\ yaml_file.changche =
       << <<"jayul", YDict(<< <<K_1haknyeon, YStr(Sentinel)>>,
                              <<K_int1, YDict(<< <<"pyeongga", YStr(Sentinel)>>,
                                                 <<"iyu", YStr(T_why)>> >>)>> >>)>> >>
  /\ yaml_data.activities = <<>>

-----------------------------------------------------------------------------
(* SpecMerge: 레퍼런스_저장 applied once, on an empty store, to every pair of  *)
(* an evaluation file and a paired-document result of MergeCases.           *)

\* The most leaves of an evaluation file's section in SpecMerge.
MaxMergeLeaves == 2
\* The most records of one kind in the paired document's result in SpecMerge.
MaxPdfRecords == 3

\* Extracted texts: long enough for every extractor's threshold.
P_a == Rep("a", 21)
P_b == Rep("b", 21)
T_hope == <<"d", "r">>

K_3haknyeon == YStr(<<"3", "hak", "nyeon">>)

MergeVals ==
  { YStr(T_good),
    YDict(<< <<"pyeongga", YStr(T_good)>>, <<"iyu", YStr(T_why)>> >>) }

\* parse_pdf's activity records: None or a text, several records of one key
\* (the text path emits one per block), any order.
PdfActivityItems ==
  {[category |-> "jayul", grade |-> 1, career_hope |-> None, original_text |-> t] :
      t \in {None, P_a, P_b}}
    \cup {[category |-> "jayul", grade |-> 2, career_hope |-> None, original_text |-> P_a],
          [category |-> "jayul", grade |-> 2, career_hope |-> None, original_text |-> None],
          [category |-> "jinro", grade |-> 3, career_hope |-> T_hope, original_text |-> P_b]}

\* parse_pdf's subject records: one per term entry, always with a text.
PdfSubjectItems ==
  {[grade |-> 2, subject_name |-> "math", original_text |-> P_a],
   [grade |-> 2, subject_name |-> "math", original_text |-> P_b],
   [grade |-> 1, subject_name |-> "math", original_text |-> P_a],
   [grade |-> 2, subject_name |-> "korean", original_text |-> P_b]}

\* parse_pdf's behavior records: always with a text, one per grade.
PdfBehaviorItems ==
  {[grade |-> 1, original_text |-> P_a], [grade |-> 1, original_text |-> P_b],
   [grade |-> 2, original_text |-> P_b]}

PdfWith(a, x, b) ==
  [is_none |-> FALSE, activities |-> a, subjects |-> x, behaviors |-> b,
   source_pdf |-> "s1.pdf"]

MergeActivitySections(n) ==
  {Nest(l, YNull) :
     l \in Leaves({<<"jayul", K_1haknyeon>>, <<"jayul", K_int1>>, <<"jinro", K_3haknyeon>>},
                  MergeVals, YNull, n)}

MergeSubjectSections(n) ==
  {Nest(l, "") :
     l \in Leaves({<<K_2haknyeon, "math">>, <<K_2haknyeon, "korean">>, <<K_1haknyeon, "math">>},
                  MergeVals, "", n)}

MergeBehaviorSections(n) ==
  {[i \in 1..Len(l) |-> <<l[i].top, l[i].val>>] :
     l \in Leaves({K_1haknyeon, K_int1, K_2haknyeon} \X {YNull}, MergeVals, K_haknyeon, n)}

\* The pairs <<evaluation tree, paired document result>> of SpecMerge: one
\* record kind at a time, with and without a paired document.
MergeCases(n, k) ==
  ({[EmptyTree EXCEPT !.changche = a] : a \in MergeActivitySections(n)}
     \X ({NoPdf} \cup {PdfWith(x, <<>>, <<>>) : x \in SeqsUpTo(PdfActivityItems, k)}))
  \cup
  ({[EmptyTree EXCEPT !.seteuk = a] : a \in MergeSubjectSections(n)}
     \X ({NoPdf} \cup {PdfWith(<<>>, x, <<>>) : x \in SeqsUpTo(PdfSubjectItems, k)}))
  \cup
  ({[EmptyTree EXCEPT !.haengteuk = a] : a \in MergeBehaviorSections(n)}
     \X ({NoPdf} \cup {PdfWith(<<>>, <<>>, x) :
            x \in {b \in SeqsUpTo(PdfBehaviorItems, k) :
                     \A i, j \in 1..Len(b) : i # j => b[i].grade # b[j].grade}}))

InitMerge ==
  /\ y_pc = "idle"
  /\ \E c \in MergeCases(MaxMergeLeaves, MaxPdfRecords) : yaml_file = c[1] /\ pdf_data = c[2]
  /\ yaml_data = EmptyResult("s1.yaml")
  /\ m_pc = "ready"
  /\ wonmun_index = EmptyIndex
  /\ db = <<>>
  /\ TableIdle
  /\ PdfIdle
  /\ StoreIdle /\ SectionIdle

ReferenceJeojangCall ==
  /\ m_pc = "ready"
  /\ yaml_data' = ParseYaml(yaml_file, "s1.yaml")
  /\ wonmun_index' = WonmunIndexSaengseong(pdf_data)
  /\ db' = ReferenceJeojang(db, yaml_file, "s1.yaml", pdf_data)
  /\ m_pc' = "stored"
  /\ UNCHANGED <<y_pc, yaml_file, pdf_data, tableVars, pdfVars, storeVars, sectionVars>>

\* 레퍼런스_저장 of the evaluation file while its document is not yet in
\* data/pdf: pdf_path is None and the index is empty.
ReferenceJeojangAlone ==
  /\ m_pc = "ready"
  /\ ~pdf_data.is_none
  /\ yaml_data' = ParseYaml(yaml_file, "s1.yaml")
  /\ db' = ReferenceJeojang(db, yaml_file, "s1.yaml", NoPdf)
  /\ m_pc' = "ingested"
  /\ UNCHANGED <<y_pc, yaml_file, pdf_data, wonmun_index, tableVars, pdfVars, storeVars,
                 sectionVars>>

\* upload_pdf of the document s1.pdf afterwards: parse_pdf returns pdf_data and
\* the student stored from s1.yaml is the match.
UploadPdfMatched ==
  /\ m_pc = "ingested"
  /\ db' = RefUpload(db, pdf_data, "s1.pdf")
  /\ m_pc' = "uploaded"
  /\ UNCHANGED <<y_pc, yaml_file, yaml_data, pdf_data, wonmun_index, tableVars, pdfVars,
                 storeVars, sectionVars>>

NextMerge == ReferenceJeojangCall \/ ReferenceJeojangAlone \/ UploadPdfMatched

SpecMerge == InitMerge /\ [][NextMerge]_vars

\* The RefStudent row that 레퍼런스_저장 stored.
Stored == db[Len(db)]

SameIndices(a, b) == DOMAIN a \cap DOMAIN b

\* C1. Merge completeness: 레퍼런스_저장 stores exactly one activity, subject
\* and behavior row per record parse_yaml produced, in the same order and with
\* that record's key, whether or not the paired document has the key; records
\* of the paired document add no row.
MergeCompleteness ==
  m_pc = "stored" =>
    /\ Len(db) = 1
    /\ Len(Stored.activities) = Len(yaml_data.activities)
    /\ Len(Stored.subjects) = Len(yaml_data.subjects)
    /\ Len(Stored.behaviors) = Len(yaml_data.behaviors)
    /\ \A i \in SameIndices(Stored.activities, yaml_data.activities) :
         /\ Stored.activities[i].category = yaml_data.activities[i].category
         /\ Stored.activities[i].grade = yaml_data.activities[i].grade
    /\ \A i \in SameIndices(Stored.subjects, yaml_data.subjects) :
         /\ Stored.subjects[i].subject_name = yaml_data.subjects[i].subject_name
         /\ Stored.subjects[i].grade = yaml_data.subjects[i].grade
    /\ \A i \in SameIndices(Stored.behaviors, yaml_data.behaviors) :
         Stored.behaviors[i].grade = yaml_data.behaviors[i].grade

PdfActivityKeys == {<<p.category, p.grade>> : p \in Range(pdf_data.activities)}
PdfSubjectKeys  == {<<p.subject_name, p.grade>> : p \in Range(pdf_data.subjects)}
PdfBehaviorKeys == {p.grade : p \in Range(pdf_data.behaviors)}

\* C1 witness: two evaluation records, one with and one without a key of the
\* paired document, and a document record with no evaluation counterpart; two
\* rows are stored.
MergeCompletenessWitness ==
  /\ m_pc = "stored"
  /\ ~pdf_data.is_none
  /\ Len(Stored.activities) = 2
  /\ <<Stored.activities[1].category, Stored.activities[1].grade>> \in PdfActivityKeys
  /\ <<Stored.activities[2].category, Stored.activities[2].grade>> \notin PdfActivityKeys
  /\ \E k \in PdfActivityKeys :
       \A r \in Range(yaml_data.activities) : <<r.category, r.grade>> # k

\* C2. For every evaluation record the stored original_text is the index value
\* at the record's key ((category, grade), (subject name, grade), grade) and is
\* null when the paired document has no record with that key; the evaluation
\* text is the one parse_yaml produced and is not null.
OriginalTextLookup ==
  m_pc = "stored" =>
    /\ \A i \in SameIndices(Stored.activities, yaml_data.activities) :
         LET r == Stored.activities[i]
             key == <<r.category, r.grade>>
         IN  /\ r.original_text = IF DictHas(wonmun_index.activities, key)
                                  THEN DictGet(wonmun_index.activities, key, None) ELSE None
             /\ key \notin PdfActivityKeys => r.original_text = None
             /\ r.evaluation = yaml_data.activities[i].evaluation
             /\ r.evaluation # None
    /\ \A i \in SameIndices(Stored.subjects, yaml_data.subjects) :
         LET r == Stored.subjects[i]
             key == <<r.subject_name, r.grade>>
         IN  /\ r.original_text = IF DictHas(wonmun_index.subjects, key)
                                  THEN DictGet(wonmun_index.subjects, key, None) ELSE None
             /\ key \notin PdfSubjectKeys => r.original_text = None
             /\ r.evaluation = yaml_data.subjects[i].evaluation
             /\ r.evaluation # None
    /\ \A i \in SameIndices(Stored.behaviors, yaml_data.behaviors) :
         LET r == Stored.behaviors[i]
         IN  /\ r.original_text = IF DictHas(wonmun_index.behaviors, r.grade)
                                  THEN DictGet(wonmun_index.behaviors, r.grade, None) ELSE None
             /\ r.grade \notin PdfBehaviorKeys => r.original_text = None
             /\ r.evaluation = yaml_data.behaviors[i].evaluation
             /\ r.evaluation # None

\* C2 witness (scenario 5): an evaluation record for (진로활동, 3) with a paired
\* document that has no such key is stored with original_text null and its
\* evaluation text, beside a record whose key the document has.
OriginalTextLookupWitness ==
  /\ m_pc = "stored"
  /\ ~pdf_data.is_none
  /\ pdf_data.activities # <<>>
  /\ \E r \in Range(Stored.activities) :
       /\ r.category = "jinro" /\ r.grade = 3
       /\ r.original_text = None /\ r.evaluation = T_good
  /\ \E r \in Range(Stored.activities) : r.original_text = P_a

\* The non-empty texts of a list of extracted records, in list order.
Fragments(records) ==
  LET HasText(r) == r.original_text # None /\ r.original_text # <<>>
      kept == SelectSeq(records, HasText)
  IN  [i \in 1..Len(kept) |-> kept[i].original_text]

SubjectsWithKey(key) ==
  LET Same(r) == <<r.subject_name, r.grade>> = key IN SelectSeq(pdf_data.subjects, Same)

ActivitiesWithKey(key) ==
  LET Same(r) == <<r.category, r.grade>> = key IN SelectSeq(pdf_data.activities, Same)

\* C3. Subject index: the index value at every (subject name, grade) of the
\* extracted subject records is the newline-joined concatenation, in document
\* order, of the non-empty texts of the records with that key, the index holds
\* the key once, and a stored SubjectRecord with that key holds that text.
SubjectIndexLaw ==
  m_pc = "stored" =>
    /\ \A key \in PdfSubjectKeys :
         /\ Cardinality({i \in 1..Len(wonmun_index.subjects) :
                           wonmun_index.subjects[i][1] = key}) = 1
         /\ DictGet(wonmun_index.subjects, key, None)
              = Join(NEWLINE, Fragments(SubjectsWithKey(key)))
    /\ \A r \in Range(Stored.subjects) :
         <<r.subject_name, r.grade>> \in PdfSubjectKeys =>
           r.original_text = Join(NEWLINE, Fragments(SubjectsWithKey(<<r.subject_name, r.grade>>)))

\* C3 witness (scenario 3): two extracted entries of 수학, grade 2, with
\* distinct texts, and one stored SubjectRecord holding both, newline-joined.
SubjectIndexWitness ==
  /\ m_pc = "stored"
  /\ pdf_data.subjects = <<[grade |-> 2, subject_name |-> "math", original_text |-> P_a],
                           [grade |-> 2, subject_name |-> "math", original_text |-> P_b]>>
  /\ Len(Stored.subjects) = 1
  /\ Stored.subjects[1].original_text = P_a \o NEWLINE \o P_b

\* C4. Activity index: every (category, grade) of the extracted activity
\* records is a key of the index; its value is the newline-joined
\* concatenation, in list order, of the non-empty texts with that key, and is
\* null exactly when no record with that key has a text.
ActivityIndexLaw ==
  m_pc = "stored" =>
    \A key \in PdfActivityKeys :
      /\ DictHas(wonmun_index.activities, key)
      /\ LET texts == Fragments(ActivitiesWithKey(key))
             value == DictGet(wonmun_index.activities, key, <<>>)
         IN  /\ texts # <<>> => value = Join(NEWLINE, texts)
             /\ value = None <=> texts = <<>>

\* C4 witness: a key whose only record has no text is in the index as null,
\* beside a key whose value is the join of two texts in list order.
ActivityIndexWitness ==
  /\ m_pc = "stored"
  /\ \E k \in PdfActivityKeys :
       DictHas(wonmun_index.activities, k) /\ DictGet(wonmun_index.activities, k, <<>>) = None
  /\ \E k \in PdfActivityKeys :
       DictGet(wonmun_index.activities, k, <<>>) = P_b \o NEWLINE \o P_a

-----------------------------------------------------------------------------
(* SpecTable: _창체_테이블_파싱 reading a document page by page, table by     *)
(* table and row by row.  The document is any sequence of pages, holding    *)
(* tables of rows of RowVocab, at most MaxRows rows in all.                 *)

MaxRows == 3

E == <<>>
Hours == <<"5", "3">>
HopeVal == <<"d", "r">>
HopeInline == <<"n", "s">>
\* Contents: one character over the activity threshold, exactly at it, the
\* first one followed by more, the first one followed by a boilerplate line,
\* and one that starts with a 희망분야 line.
C_long == Rep("a", ChangcheMinLen + 1)
C_short == Rep("s", ChangcheMinLen)
C_more == C_long \o <<" ", "b", "b">>
C_noise == C_long \o <<"\n", "balgeupbeonho">>
C_hope == <<"huimang", " ">> \o HopeInline \o <<"\n">> \o Rep("z", ChangcheMinLen + 1)

RowVocab ==
  {<<<<"1">>, <<"jayul">>, Hours, E>>, <<<<"2">>, <<"jayul">>, Hours, C_noise>>,
   <<E, <<"dongari">>, Hours, C_short>>,
   <<E, <<"jinro">>, Hours, E>>, <<E, <<"jinro">>, Hours, <<"huimang">>, HopeVal>>,
   <<<<"2">>, E, E, E>>, <<None, None, None, None>>}
    \cup {<<E, E, E, c>> : c \in {C_long, C_more, C_short, C_hope}}

InitTable ==
  /\ YamlIdle /\ MergeIdle /\ PdfIdle /\ StoreIdle /\ SectionIdle
  /\ t_pc = "pages" /\ tb = TableInit /\ t_page_on = FALSE /\ t_rows = <<>>
  /\ t_used = 0 /\ t_rowno = 0 /\ t_span = FALSE /\ t_last = NoRow /\ t_out = <<>>

\* Lines 141-157: the next page is read.
TablePageRead(title, next) ==
  /\ t_pc = "pages"
  /\ tb' = [tb EXCEPT !.changche_sijakdoem = TableFlag(@, title, next)]
  /\ t_page_on' = TablePageOn(tb'.changche_sijakdoem, title)
  /\ t_span' = (title \/ (t_span /\ ~next))
  /\ UNCHANGED <<t_pc, t_rows, t_used, t_rowno, t_last, t_out, yamlVars, mergeVars, pdfVars, storeVars, sectionVars>>

\* Lines 160-167: the next table of a page that is processed; a table without
\* a label is passed over.
TableTableRead ==
  /\ t_pc = "pages" /\ t_page_on
  /\ \E n \in 1..(MaxRows - t_used) : \E table \in [1..n -> RowVocab] :
       /\ t_used' = t_used + n
       /\ t_rowno' = 0
       /\ IF TableIsChangche(table)
            THEN t_pc' = "rows" /\ t_rows' = table
            ELSE UNCHANGED <<t_pc, t_rows>>
  /\ UNCHANGED <<tb, t_page_on, t_span, t_last, t_out, yamlVars, mergeVars, pdfVars, storeVars, sectionVars>>

\* What the row that says r did: the key it wrote to, the content it carried,
\* and the text of the record it met there, if it met one.
LastRow(st, r) ==
  IF r.blank \/ r.current_activity = "None" THEN NoRow
  ELSE [acted |-> TRUE, key |-> <<r.current_grade, r.current_activity>>,
        content |-> r.content,
        had |-> DictHas(st.gyeolgwa, <<r.current_grade, r.current_activity>>),
        existing |-> DictGet(st.gyeolgwa, <<r.current_grade, r.current_activity>>,
                             [original_text |-> None]).original_text]

\* Lines 169-257: the next row of the table.
TableRowRead ==
  /\ t_pc = "rows"
  /\ t_last' = LastRow(tb, TableRowParts(tb, Head(t_rows)))
  /\ tb' = TableRow(tb, Head(t_rows))
  /\ t_rows' = Tail(t_rows)
  /\ t_rowno' = t_rowno + 1
  /\ t_pc' = IF Tail(t_rows) = <<>> THEN "pages" ELSE "rows"
  /\ UNCHANGED <<t_page_on, t_used, t_span, t_out, yamlVars, mergeVars, pdfVars, storeVars, sectionVars>>

\* Lines 259-264: no page is left.
TableReturn ==
  /\ t_pc = "pages"
  /\ t_out' = TableSorted(tb.gyeolgwa)
  /\ t_pc' = "done"
  /\ UNCHANGED <<tb, t_page_on, t_rows, t_used, t_rowno, t_span, t_last, yamlVars, mergeVars, pdfVars, storeVars, sectionVars>>

NextTable ==
  \/ \E title, next \in BOOLEAN : TablePageRead(title, next)
  \/ TableTableRead
  \/ TableRowRead
  \/ TableReturn

SpecTable == InitTable /\ [][NextTable]_vars

\* The record 결과 holds under a key.
ResultAt(key) == DictGet(tb.gyeolgwa, key, [original_text |-> None])

\* The number of places where the text a occurs in the text b.
Occurrences(a, b) ==
  Cardinality({i \in 0..(Len(b) - Len(a)) : SubSeq(b, i + 1, i + Len(a)) = a})

\* The place of a category in the fixed order 자율활동, 동아리활동, 진로활동.
CategoryPlace(category) ==
  CASE category = "jayul" -> 1 [] category = "dongari" -> 2 [] category = "jinro" -> 3

\* C8 (as stated): when a row meets a record of its key whose text is a
\* prefix or substring of the row's content, the merged text contains the
\* row's content, and that earlier text occurs in it only once.
TableMergeNoDuplication ==
  (t_last.acted /\ t_last.had /\ t_last.existing # None /\ t_last.content # <<>>
     /\ IsSubstring(t_last.existing, t_last.content))
    => /\ ResultAt(t_last.key).original_text # None
       /\ IsSubstring(t_last.content, ResultAt(t_last.key).original_text)
       /\ Occurrences(t_last.existing, ResultAt(t_last.key).original_text) = 1

\* C10: the list _창체_테이블_파싱 returns is in ascending order of grade and,
\* within a grade, in the order 자율활동, 동아리활동, 진로활동, whatever the order
\* in which the keys were first seen; it holds the records of 결과, each once.
TableOutputOrdering ==
  t_pc = "done" =>
    /\ \A i, j \in 1..Len(t_out) :
         i < j => \/ t_out[i].grade < t_out[j].grade
                  \/ /\ t_out[i].grade = t_out[j].grade
                     /\ CategoryPlace(t_out[i].category) < CategoryPlace(t_out[j].category)
    /\ Len(t_out) = Len(tb.gyeolgwa)
    /\ \A i \in 1..Len(tb.gyeolgwa) : \E j \in 1..Len(t_out) : t_out[j] = tb.gyeolgwa[i][2]

\* Three keys were first seen in an order that is not the output order: two
\* grades, and two categories within one grade.
TableOutputOrderingWitness ==
  /\ t_pc = "done" /\ Len(t_out) = 3
  /\ t_out # [i \in 1..Len(tb.gyeolgwa) |-> tb.gyeolgwa[i][2]]
  /\ t_out[1].grade = t_out[2].grade /\ t_out[2].grade < t_out[3].grade
  /\ t_out[1].category # t_out[2].category

-----------------------------------------------------------------------------
(* SpecPdf: one upload of a document to the client service, which calls     *)
(* parse_pdf and stores what it returns.  The document is any of PdfDocs:    *)
(* documents around the guard's threshold, and readable documents whose      *)
(* sections hold at most MaxUnits units (table rows, activity segments,      *)
(* subject entries, behavior blocks) around the extractors' thresholds.      *)

MaxUnits == 2

\* A line _문서_꼬리 drops.
NoiseLine == <<"\n", "balgeupbeonho">>

\* A readable front: exactly as many characters as the guard asks for.
Filler == Rep("x", GuardMinLen)

\* Page texts around the guard: half the threshold, and one character less
\* than half behind a blank.
X_half == <<"y">> \o Rep("x", (GuardMinLen \div 2) - 1)
X_pad == <<" ">> \o Rep("x", (GuardMinLen \div 2) - 1)
GuardTexts == {None, <<>>, <<"a", "b">>, X_half, X_pad}

\* Table rows: an activity at the threshold and over it, a continuation, a
\* row with a boilerplate line, and the row of the student's name.
NameRow == <<<<"ireum">>, <<" ", "g", "i", "m">>>>
RowUnits ==
  {<<<<"1">>, <<"jayul">>, Hours, C_short>>, <<<<"1">>, <<"jayul">>, Hours, C_long>>,
   <<E, <<"dongari">>, Hours, C_noise>>, <<E, E, E, C_long>>, NameRow}

\* Segments of the activity section's text: a header and a content.
H_one == <<"\n", "1", " ", "jayul", " ", "5", "3", "\n">>
H_same == <<"\n", "jayul", " ", "2", "0", "\n">>
H_two == <<"\n", "2", " ", "dongari", " ", "1", "0", "\n">>
ActUnits ==
  {[header |-> H_one, content |-> C_long], [header |-> H_same, content |-> C_more],
   [header |-> H_two, content |-> C_short], [header |-> H_two, content |-> C_noise],
   [header |-> H_one, content |-> C_short \o NoiseLine]}

\* Entries of the subject section: a semester mark, a name and a content.
S_under == Rep("k", SeteukMinLen - 1)
S_at == Rep("m", SeteukMinLen)
S_over == Rep("n", SeteukMinLen + 1)
SubUnits ==
  {[name |-> <<"su", "hak">>, content |-> S_under],
   [name |-> <<"su", "hak">>, content |-> S_at],
   [name |-> <<"gug", "eo">>, content |-> S_over],
   [name |-> <<"gug", "eo">>, content |-> S_at \o NoiseLine],
   [name |-> <<"yeong", "eo", " ", "[", "a", "]">>, content |-> S_under \o NoiseLine]}

\* Blocks of the behavior section: a grade and a content.
B_at == Rep("p", HaengteukMinLen)
B_over == Rep("q", HaengteukMinLen + 1)
B_more == B_over \o <<" ", "z">>
BehUnits ==
  {[grade |-> "1", content |-> B_at], [grade |-> "1", content |-> B_over],
   [grade |-> "1", content |-> B_more],
   [grade |-> "2", content |-> B_over \o NoiseLine],
   [grade |-> "2", content |-> B_at \o NoiseLine],
   [grade |-> "3", content |-> <<"haknyeon", "\n">> \o B_over]}

\* The sequences of one to MaxUnits elements of S.
UnitSeqs(S) == UNION {[1..n -> S] : n \in 1..MaxUnits}

ActText(us) ==
  <<"changche_title">> \o Join(<<>>, [i \in 1..Len(us) |-> us[i].header \o us[i].content])
    \o <<"\n">>
SubText(us) ==
  <<"seteuk_title", "\n", "[2haknyeon]", "\n">>
    \o Join(<<>>, [i \in 1..Len(us) |->
                     <<"(1hakgi)">> \o us[i].name \o <<":", " ">> \o us[i].content \o <<"\n">>])
BehText(us) ==
  <<"7", ".", " ", "haengteuk_title", "\n">>
    \o Join(<<>>, [i \in 1..Len(us) |-> <<us[i].grade, "\n">> \o us[i].content \o <<"\n">>])

\* The subject section with the text `pre` between its title and its first
\* [N학년] header, and one entry under each header of hs. G_pre(n) is a text of
\* n characters: one entry when n is more than 1, else the end of the title
\* line alone.
PreName == <<"su", "hak">>
PreHead == <<"\n", "(1hakgi)">> \o PreName \o <<":", " ">>
G_pre(n) ==
  IF n <= Len(PreHead) + 1 THEN Rep("\n", n)
  ELSE PreHead \o Rep("n", n - Len(PreHead) - 1) \o <<"\n">>
PreTexts == {G_pre(1), G_pre(PreBlockMin), G_pre(PreBlockMin + 1)}
HeaderSeqs == {<<>>} \cup UnitSeqs(GradeHeaders)
GradeText(pre, hs) ==
  <<"seteuk_title">> \o pre
    \o Join(<<>>, [i \in 1..Len(hs) |->
                     <<hs[i], "\n", "(1hakgi)", "gug", "eo", ":", " ">> \o S_over \o <<"\n">>])

\* The activity section with three boundaries, 자율활동, 자율활동 and 동아리활동,
\* and the text mid as the second block: its own content M_own and then, in
\* either order, a recurrence of the section title followed by M_page and a
\* club marker followed by M_club.
M_own == Rep("o", ChangcheMinLen + 1)
M_page == Rep("p", ChangcheMinLen + 1)
M_club == Rep("c", ChangcheMinLen + 1)
AfterTitle == <<"\n", "changche_title", "\n">> \o M_page
AfterMarker == <<"\n", "club_marker">> \o M_club
MidTexts ==
  {[text |-> M_own, cut |-> {}],
   [text |-> M_own \o AfterTitle, cut |-> {M_page}],
   [text |-> M_own \o AfterMarker, cut |-> {M_club}],
   [text |-> M_own \o AfterMarker \o AfterTitle, cut |-> {M_club, M_page}],
   [text |-> M_own \o AfterTitle \o AfterMarker, cut |-> {M_page, M_club}]}
ReassignText(mid) ==
  <<"changche_title">> \o H_one \o C_long \o H_same \o mid \o H_two \o C_more \o <<"\n">>

\* A one-page document with the text `text` behind the readable front.
TextDoc(text) == <<[text |-> Filler \o <<"\n">> \o text, tables |-> <<>>]>>
ActDoc(us) == TextDoc(ActText(us))
SubDoc(us) == TextDoc(SubText(us))
GradeDoc(pre, hs) == TextDoc(GradeText(pre, hs))
ReassignDoc(mid) == TextDoc(ReassignText(mid))
BehDoc(us) == TextDoc(BehText(us))
\* A one-page document of the activity section with one table.
TableDoc(rows) == <<[text |-> Filler \o <<"\n", "changche_title">>, tables |-> <<rows>>]>>

\* A page with every section in its text and a table: what the third page of
\* a guard document holds, and a document of its own behind a table page.
FullPage ==
  [text |-> Filler \o <<"\n">>
              \o ActText(<<[header |-> H_one, content |-> C_long]>>)
              \o SubText(<<[name |-> <<"su", "hak">>, content |-> S_over]>>)
              \o BehText(<<[grade |-> "1", content |-> B_over]>>),
   tables |-> <<<<<<<<"1">>, <<"jayul">>, Hours, C_long>>>>, <<NameRow>>>>]

GuardDocs ==
  {<<[text |-> a, tables |-> <<>>]>> : a \in GuardTexts}
    \cup {<<[text |-> a, tables |-> <<>>], [text |-> b, tables |-> <<>>]>> :
            a \in GuardTexts, b \in GuardTexts}
    \cup {<<[text |-> a, tables |-> <<>>], [text |-> b, tables |-> <<>>], FullPage>> :
            a \in GuardTexts, b \in GuardTexts}

FullDocs == {TableDoc(<<r>>) \o <<[FullPage EXCEPT !.tables = <<>>]>> : r \in RowUnits}

PdfDocs ==
  GuardDocs \cup FullDocs
    \cup {TableDoc(rows) : rows \in UnitSeqs(RowUnits)}
    \cup {ActDoc(us) : us \in UnitSeqs(ActUnits)}
    \cup {SubDoc(us) : us \in UnitSeqs(SubUnits)}
    \cup {GradeDoc(pre, hs) : pre \in PreTexts, hs \in HeaderSeqs}
    \cup {ReassignDoc(m.text) : m \in MidTexts}
    \cup {BehDoc(us) : us \in UnitSeqs(BehUnits)}

\* A subject as 레퍼런스_저장 stores it from the evaluation file source_yaml of
\* kim, with one entry in each section and no paired document.
StoredStudent(source_yaml) ==
  [name |-> "kim", source_pdf |-> "None", source_yaml |-> source_yaml,
   career_hopes |-> <<>>,
   activities |-> <<[category |-> "jayul", grade |-> 1, career_hope |-> None,
                     original_text |-> None, evaluation |-> T_good, reason |-> <<>>]>>,
   subjects |-> <<[grade |-> 2, subject_name |-> <<"su", "hak">>, original_text |-> None,
                   evaluation |-> T_good, reason |-> T_why]>>,
   behaviors |-> <<[grade |-> 1, original_text |-> None, evaluation |-> T_good,
                    reason |-> T_why]>>]

\* The reference store before the upload: empty, holding the subject of
\* s1.yaml (which s1.pdf matches), or holding the subject of s2.yaml.
RefStores == {<<>>, <<StoredStudent("s1.yaml")>>, <<StoredStudent("s2.yaml")>>}

InitPdf ==
  /\ YamlIdle /\ MergeIdle /\ TableIdle /\ StoreIdle /\ SectionIdle
  /\ p_pc = "open" /\ p_doc \in PdfDocs /\ p_out = NoResult("s1.pdf") /\ c_db = EmptyClientDb
  /\ r_db \in RefStores

\* Lines 605-609: the guard rejects the document.
ParsePdfRaise ==
  /\ p_pc = "open"
  /\ GuardRaises(GuardSample(p_doc))
  /\ p_pc' = "raised"
  /\ UNCHANGED <<p_doc, p_out, c_db, r_db, yamlVars, mergeVars, tableVars, storeVars, sectionVars>>

\* routers/client.py, lines 56-58, and routers/reference.py, lines 161-163:
\* the ValueError becomes a 422 answer.
UploadReject ==
  /\ p_pc = "raised"
  /\ p_pc' = "rejected"
  /\ UNCHANGED <<p_doc, p_out, c_db, r_db, yamlVars, mergeVars, tableVars, storeVars, sectionVars>>

\* Lines 605-629: the guard passes; the tables are read.
ParsePdfTablesRead ==
  /\ p_pc = "open"
  /\ ~GuardRaises(GuardSample(p_doc))
  /\ p_out' = ParsePdfTables(p_out, p_doc)
  /\ p_pc' = "tables"
  /\ UNCHANGED <<p_doc, c_db, r_db, yamlVars, mergeVars, tableVars, storeVars, sectionVars>>

\* Lines 632-647: the text is read and parse_pdf returns.
ParsePdfTextsRead ==
  /\ p_pc = "tables"
  /\ p_out' = ParsePdfTexts(p_out, FullText(p_doc))
  /\ p_pc' = "returned"
  /\ UNCHANGED <<p_doc, c_db, r_db, yamlVars, mergeVars, tableVars, storeVars, sectionVars>>

\* client_service.py, lines 36-80
ClientStore ==
  /\ p_pc = "returned"
  /\ c_db' = ClientSaenggibuJeojang(c_db, p_out, "s1.pdf")
  /\ p_pc' = "stored"
  /\ UNCHANGED <<p_doc, p_out, r_db, yamlVars, mergeVars, tableVars, storeVars, sectionVars>>

\* routers/reference.py, lines 168-252
RefUploadPdf ==
  /\ p_pc = "returned"
  /\ r_db' = RefUpload(r_db, p_out, "s1.pdf")
  /\ p_pc' = "ref_stored"
  /\ UNCHANGED <<p_doc, p_out, c_db, yamlVars, mergeVars, tableVars, storeVars, sectionVars>>

\* The evaluation file s1.yaml that the document s1.pdf is paired with: an
\* activity record and a behavior record of grade 1.
PairedTree ==
  [EmptyTree EXCEPT
     !.changche = << <<"jayul", YDict(<< <<K_1haknyeon, YStr(T_good)>> >>)>> >>,
     !.haengteuk = << <<K_1haknyeon, YStr(T_good)>> >>]

\* reference_service.py lines 102-103: pdf_data and source_pdf when parse_pdf
\* returned `out`.
PdfDataOf(out) ==
  [is_none |-> FALSE, activities |-> out.activities, subjects |-> out.subjects,
   behaviors |-> out.behaviors, source_pdf |-> out.source_pdf]

\* The except branch taking what the extractors find in the pages.
PdfDataExtracted(pages, filename) ==
  PdfDataOf(ParsePdfTexts(ParsePdfTables(NoResult(filename), pages), FullText(pages)))

\* reference_service.py lines 99-107: parse_pdf raised ValueError; pdf_data
\* and source_pdf keep the None of lines 99-100.
PdfDataAfterRaise(pages, filename) == NoPdf

\* reference_service.py lines 95-178, the paired document rejected by the
\* guard: the ValueError is caught and the evaluation file is stored.
ReferenceSaveUnread ==
  /\ p_pc = "raised"
  /\ r_db' = ReferenceJeojang(r_db, PairedTree, "s1.yaml", PdfDataAfterRaise(p_doc, "s1.pdf"))
  /\ p_pc' = "saved_unread"
  /\ UNCHANGED <<p_doc, p_out, c_db, yamlVars, mergeVars, tableVars, storeVars, sectionVars>>

\* reference_service.py lines 95-178, parse_pdf having returned.
ReferenceSavePaired ==
  /\ p_pc = "returned"
  /\ r_db' = ReferenceJeojang(r_db, PairedTree, "s1.yaml", PdfDataOf(p_out))
  /\ p_pc' = "saved"
  /\ UNCHANGED <<p_doc, p_out, c_db, yamlVars, mergeVars, tableVars, storeVars, sectionVars>>

NextPdf ==
  \/ ParsePdfRaise
  \/ UploadReject
  \/ ParsePdfTablesRead
  \/ ParsePdfTextsRead
  \/ ClientStore
  \/ RefUploadPdf
  \/ ReferenceSaveUnread
  \/ ReferenceSavePaired

SpecPdf == InitPdf /\ [][NextPdf]_vars

\* parse_pdf has returned.
Returned == p_pc \in {"returned", "stored", "ref_stored", "saved"}

\* No record of the list carries a text.
NullText(records) == \A i \in 1..Len(records) : records[i].original_text = None
\* A record of the list carries `content` as its text.
HasText(records, content) == \E i \in 1..Len(records) : records[i].original_text = content

\* A filtered content of n characters leaves no text in the records, one of
\* n + 1 characters is the text of a record.
ThresholdAt(content, records, n) ==
  /\ Len(content) = n => NullText(records)
  /\ Len(content) = n + 1 => HasText(records, content)

\* The documents of one unit, each with the filtered content of its unit.
ActivityTableLaw ==
  \A r \in RowUnits : p_doc = TableDoc(<<r>>) /\ TableIsChangche(<<r>>) =>
    ThresholdAt(TableRowParts(TableInit, r).content, p_out.activities, ChangcheMinLen)

ActivityTextLaw ==
  \A u \in ActUnits : p_doc = ActDoc(<<u>>) =>
    ThresholdAt(FallbackContent(u.content), p_out.activities, ChangcheMinLen)

SubjectLaw(n) ==
  \A u \in SubUnits : p_doc = SubDoc(<<u>>) =>
    ThresholdAt(SeteukContent(u.content), p_out.subjects, n)

BehaviorLaw ==
  \A u \in BehUnits : p_doc = BehDoc(<<u>>) =>
    ThresholdAt(HaengteukContent(u.content), p_out.behaviors, HaengteukMinLen)

\* C6, as stated: a filtered content of exactly 15 characters (activity, table
\* and text paths) or exactly 20 characters (subject remark, behavior remark)
\* yields no original text, and one of 16 / 21 characters yields its text.
ThresholdLawAsStated ==
  Returned => ActivityTableLaw /\ ActivityTextLaw /\ SubjectLaw(SeteukMinLen) /\ BehaviorLaw

\* C6: a filtered content of exactly 15 characters (activity, table and text
\* paths) or exactly 20 characters (behavior remark) yields no original text
\* and one of 16 / 21 characters yields its text; a subject remark of exactly
\* 19 characters yields no record and one of exactly 20 characters yields a
\* record with its text.
ThresholdLaw ==
  Returned => ActivityTableLaw /\ ActivityTextLaw /\ SubjectLaw(SeteukMinLen - 1) /\ BehaviorLaw

\* C6 witness: parse_pdf has returned from a document with one subject entry
\* whose filtered content has exactly 20 characters, and the record carries it.
ThresholdLawWitness ==
  /\ p_pc = "returned"
  /\ \E u \in SubUnits :
       /\ p_doc = SubDoc(<<u>>)
       /\ Len(SeteukContent(u.content)) = SeteukMinLen
       /\ HasText(p_out.subjects, SeteukContent(u.content))

\* C7: parse_pdf raises exactly when the stripped text of the first two pages
\* has fewer than 50 characters, and when it raises nothing has been
\* extracted and nothing is stored.
DocumentGuard ==
  /\ p_pc \in {"raised", "rejected", "saved_unread"} =>
       /\ Len(GuardSample(p_doc)) < GuardMinLen
       /\ p_out = NoResult("s1.pdf")
       /\ c_db = EmptyClientDb
  /\ p_pc \in {"tables", "returned", "stored", "ref_stored", "saved"} =>
       Len(GuardSample(p_doc)) >= GuardMinLen

\* C7 witness: the upload of a 3-page document whose first two pages extract
\* to "" and "ab", and whose third page has every section and a table, has
\* been rejected.
DocumentGuardWitness ==
  /\ p_pc = "rejected"
  /\ Len(p_doc) = 3
  /\ p_doc[1].text = <<>> /\ p_doc[2].text = <<"a", "b">> /\ p_doc[3] = FullPage
  /\ p_out.activities = <<>> /\ c_db.activities = <<>>

\* No two records of the list have the same (category, grade).
KeysUnique(records) ==
  \A i, j \in 1..Len(records) :
    i # j => <<records[i].category, records[i].grade>> # <<records[j].category, records[j].grade>>

\* C9: the activity list parse_pdf returns and the activity records the
\* client service stores hold at most one record per (category, grade).
ActivityIdentity ==
  /\ Returned => KeysUnique(p_out.activities)
  /\ KeysUnique(c_db.activities)

\* C11: parse_pdf returns the text extractor's activity list exactly when the
\* table extractor returned an empty list; when the table extractor returned
\* a record, with or without a text, the returned list is the table
\* extractor's list and nothing of the text extractor's is in it.
FallbackPolicy ==
  Returned =>
    /\ ParsePdfActivities(p_doc) = <<>> =>
         p_out.activities = ChangcheParsing(FullText(p_doc))
    /\ ParsePdfActivities(p_doc) # <<>> =>
         p_out.activities = ParsePdfActivities(p_doc)

\* C11 witness: parse_pdf has returned from a document whose table gives one
\* record without a text and whose text gives the text extractor a record with
\* a text; the returned list is the record without a text.
FallbackPolicyWitness ==
  /\ p_pc = "returned"
  /\ Len(p_out.activities) = 1
  /\ p_out.activities[1].original_text = None
  /\ ~NullText(ChangcheParsing(FullText(p_doc)))

\* The behavior section as _행특_파싱 splits it into blocks, and the places of
\* the grade digits that open its blocks.
BehaviorBlockText == RemoveHeader(HaengteukSection(FullText(p_doc)))
BehaviorBlockPlaces == Ascending(GradeDigits(BehaviorBlockText))

\* The blocks parsed as grade g, by their number in document order.
BlocksOfGrade(s, ds, g) == {i \in 1..Len(ds) : DigitVal(s[ds[i]]) = g}
\* Those of them whose record survives the length filter.
KeptBlocksOfGrade(s, ds, g) == {i \in BlocksOfGrade(s, ds, g) : HaengteukBlock(s, ds, i) # <<>>}

\* The returned behavior records of grade g.
BehaviorsOfGrade(g) == SelectSeq(p_out.behaviors, LAMBDA r : r.grade = g)

\* The returned records of grade g are the record of the first block of B,
\* none when B is empty.
FirstBlockKept(s, ds, g, B) ==
  BehaviorsOfGrade(g) = IF B = {} THEN <<>> ELSE HaengteukBlock(s, ds, Min(B))

\* C12, as stated: the behavior-remark extractor returns at most one record
\* per grade, and when two blocks are parsed as the same grade the record kept
\* is the one of the first of them in document order.
BehaviorDedupAsStated ==
  Returned =>
    \A g \in 1..3 :
      /\ Len(BehaviorsOfGrade(g)) <= 1
      /\ Cardinality(BlocksOfGrade(BehaviorBlockText, BehaviorBlockPlaces, g)) >= 2 =>
           FirstBlockKept(BehaviorBlockText, BehaviorBlockPlaces, g,
                          BlocksOfGrade(BehaviorBlockText, BehaviorBlockPlaces, g))

\* C12: the behavior-remark extractor returns at most one record per grade,
\* and the record kept for a grade is the one of the first block in document
\* order, among the blocks parsed as that grade, whose filtered content has
\* more than 20 characters; a grade without such a block has no record.
BehaviorDedup ==
  Returned =>
    \A g \in 1..3 :
      /\ Len(BehaviorsOfGrade(g)) <= 1
      /\ FirstBlockKept(BehaviorBlockText, BehaviorBlockPlaces, g,
                        KeptBlocksOfGrade(BehaviorBlockText, BehaviorBlockPlaces, g))

\* C12 witness: parse_pdf has returned from a document with two blocks of one
\* grade that both pass the length filter, and the record of that grade is
\* the first block's and not the second's.
BehaviorDedupWitness ==
  /\ p_pc = "returned"
  /\ \E g \in 1..3 :
       /\ Cardinality(KeptBlocksOfGrade(BehaviorBlockText, BehaviorBlockPlaces, g)) = 2
       /\ BehaviorsOfGrade(g) = HaengteukBlock(BehaviorBlockText, BehaviorBlockPlaces, 1)
       /\ BehaviorsOfGrade(g) # HaengteukBlock(BehaviorBlockText, BehaviorBlockPlaces, 2)

-----------------------------------------------------------------------------
(* SpecStore: upload_batch run up to MaxBatches times on the reference store, *)
(* each time over the evaluation files data/yaml holds at that moment: the    *)
(* files s1.yaml and s2.yaml, each absent or in one of a few versions, some   *)
(* of which make 레퍼런스_저장 raise before, inside or at the end of its        *)
(* transaction.                                                               *)

MaxBatches == 2

\* An evaluation tree with the student block `info` and one populated section.
TreeOf(info, hopes, changche, seteuk, haengteuk) ==
  [haksaeng |-> info, huimang |-> hopes, changche |-> changche, seteuk |-> seteuk,
   haengteuk |-> haengteuk]

Named(name) == << <<"seongmyeong", name>> >>
E_good == YDict(<< <<"pyeongga", YStr(T_good)>>, <<"iyu", YStr(T_why)>> >>)
Ch_jayul1 == << <<"jayul", YDict(<< <<K_1haknyeon, YStr(T_good)>> >>)>> >>

\* kim with an activity and a behavior entry; kim with a subject entry instead;
\* lee; a file without 성명; a file whose 희망분야 has the keys "1학년" and 1.
S_kimA == TreeOf(Named("kim"), <<>>, Ch_jayul1, <<>>, << <<K_1haknyeon, YStr(T_good)>> >>)
S_kimB == TreeOf(Named("kim"), <<>>, <<>>,
                 << <<K_1haknyeon, YDict(<< <<"math", E_good>> >>)>> >>, <<>>)
S_lee == TreeOf(Named("lee"), <<>>, Ch_jayul1, <<>>, <<>>)
S_anon == TreeOf(<<>>, <<>>, Ch_jayul1, <<>>, <<>>)
S_hopes == TreeOf(Named("kim"), << <<K_1haknyeon, YStr(T_good)>>, <<K_int1, YStr(T_why)>> >>,
                  <<>>, <<>>, <<>>)
\* Files that raise: "성명: null" (at the flush of the student row), a null
\* subject name (at the commit), and an empty file (in parse_yaml).
S_null_name == TreeOf(Named("None"), <<>>, Ch_jayul1, <<>>, <<>>)
S_null_subject == TreeOf(Named("kim"), <<>>, Ch_jayul1,
                         << <<K_1haknyeon, YDict(<< <<"None", E_good>> >>)>> >>, <<>>)

\* parse_pdf's result for data/pdf/s1.pdf.
Pdf_s1 ==
  [is_none |-> FALSE,
   activities |-> <<[category |-> "jayul", grade |-> 1, original_text |-> P_a]>>,
   subjects |-> <<>>, behaviors |-> <<>>, source_pdf |-> "s1.pdf"]

\* The versions of s1.yaml (with the paired document, if any) and of s2.yaml.
Versions1 ==
  {[tree |-> t, pdf |-> NoPdf] :
     t \in {S_kimA, S_kimB, S_lee, S_anon, S_hopes, S_null_name, S_null_subject, YNull}}
    \cup {[tree |-> S_kimA, pdf |-> Pdf_s1]}
Versions2 == {[tree |-> t, pdf |-> NoPdf] : t \in {S_kimA, S_lee, S_null_subject, YNull}}

FilesOf(name, V) == {<<>>} \cup {<<[name |-> name, tree |-> v.tree, pdf |-> v.pdf]>> : v \in V}

\* Line 64: the files of data/yaml, sorted by name.
Dirs == {a \o b : a \in FilesOf("s1.yaml", Versions1), b \in FilesOf("s2.yaml", Versions2)}

InitStore ==
  /\ YamlIdle /\ MergeIdle /\ TableIdle /\ PdfIdle /\ SectionIdle
  /\ b_pc = "idle" /\ b_dir = <<>> /\ b_i = 0 /\ b_results = <<>>
  /\ b_summary = BatchLoadResult(<<>>)
  /\ b_session = <<>> /\ b_store = <<>> /\ b_before = <<>> /\ b_log = <<>> /\ b_round = 0

\* The file the loop is at, and parse_yaml's result for it.
BatchFile == b_dir[b_i + 1]
BatchYaml == ParseYaml(BatchFile.tree, BatchFile.name)

\* Lines 60-68: a request with files to load.
BatchStart ==
  /\ b_pc \in {"idle", "done", "notfound"}
  /\ b_round < MaxBatches
  /\ \E d \in Dirs \ {<<>>} : b_dir' = d
  /\ b_pc' = "loop" /\ b_i' = 0 /\ b_results' = <<>> /\ b_before' = b_store
  /\ b_round' = b_round + 1
  /\ UNCHANGED <<b_summary, b_session, b_store, b_log, yamlVars, mergeVars, tableVars, pdfVars, sectionVars>>

\* Lines 65-66: no evaluation file, the request is answered 404.
BatchNotFound ==
  /\ b_pc \in {"idle", "done", "notfound"}
  /\ b_round < MaxBatches
  /\ b_dir' = <<>> /\ b_pc' = "notfound" /\ b_i' = 0 /\ b_results' = <<>>
  /\ b_before' = b_store /\ b_round' = b_round + 1
  /\ UNCHANGED <<b_summary, b_session, b_store, b_log, yamlVars, mergeVars, tableVars, pdfVars, sectionVars>>

\* reference_service.py line 95: parse_yaml raises.
SaveParseRaise ==
  /\ b_pc = "loop" /\ b_i < Len(b_dir)
  /\ ParseYamlRaises(BatchFile.tree)
  /\ b_pc' = "except"
  /\ UNCHANGED <<b_dir, b_i, b_results, b_summary, b_session, b_store, b_before, b_log,
                  b_round, yamlVars, mergeVars, tableVars, pdfVars, sectionVars>>

\* reference_service.py lines 95-120: the files are parsed and the existing
\* row, if any, is deleted in the session.
SaveDelete ==
  /\ b_pc = "loop" /\ b_i < Len(b_dir)
  /\ ~ParseYamlRaises(BatchFile.tree)
  /\ b_session' = SessionDelete(b_session, BatchYaml)
  /\ b_pc' = "deleted"
  /\ UNCHANGED <<b_dir, b_i, b_results, b_summary, b_store, b_before, b_log, b_round,
                  yamlVars, mergeVars, tableVars, pdfVars, sectionVars>>

\* reference_service.py lines 123-132: the flush of the student row raises.
SaveFlushRaise ==
  /\ b_pc = "deleted"
  /\ StudentInsertRaises(BatchYaml)
  /\ b_pc' = "except"
  /\ UNCHANGED <<b_dir, b_i, b_results, b_summary, b_session, b_store, b_before, b_log,
                  b_round, yamlVars, mergeVars, tableVars, pdfVars, sectionVars>>

\* reference_service.py lines 123-176: the rows are added to the session.
SaveAdd ==
  /\ b_pc = "deleted"
  /\ ~StudentInsertRaises(BatchYaml)
  /\ b_session' = SessionAdd(b_session, BatchYaml, BatchFile.pdf)
  /\ b_pc' = "added"
  /\ UNCHANGED <<b_dir, b_i, b_results, b_summary, b_store, b_before, b_log, b_round,
                  yamlVars, mergeVars, tableVars, pdfVars, sectionVars>>

\* reference_service.py line 178: the commit raises.
SaveCommitRaise ==
  /\ b_pc = "added"
  /\ CommitRaises(b_session[Len(b_session)])
  /\ b_pc' = "except"
  /\ UNCHANGED <<b_dir, b_i, b_results, b_summary, b_session, b_store, b_before, b_log,
                  b_round, yamlVars, mergeVars, tableVars, pdfVars, sectionVars>>

\* reference_service.py lines 178-180, routers/reference.py lines 72-79: the
\* commit succeeds and the file's result is reported.
SaveCommit ==
  /\ b_pc = "added"
  /\ ~CommitRaises(b_session[Len(b_session)])
  /\ b_store' = b_session
  /\ b_results' = Append(b_results, LoadSuccess(BatchFile.name, b_session[Len(b_session)]))
  /\ b_log' = Append(b_log, BatchFile)
  /\ b_i' = b_i + 1
  /\ b_pc' = "loop"
  /\ UNCHANGED <<b_dir, b_summary, b_session, b_before, b_round,
                  yamlVars, mergeVars, tableVars, pdfVars, sectionVars>>

\* routers/reference.py lines 80-86: the exception is caught.
BatchExcept ==
  /\ b_pc = "except"
  /\ b_session' = Rollback(b_session, b_store)
  /\ b_results' = Append(b_results, LoadFailure(BatchFile.name))
  /\ b_i' = b_i + 1
  /\ b_pc' = "loop"
  /\ UNCHANGED <<b_dir, b_summary, b_store, b_before, b_log, b_round,
                  yamlVars, mergeVars, tableVars, pdfVars, sectionVars>>

\* routers/reference.py lines 88-94
BatchReturn ==
  /\ b_pc = "loop" /\ b_i = Len(b_dir)
  /\ b_summary' = BatchLoadResult(b_results)
  /\ b_pc' = "done"
  /\ UNCHANGED <<b_dir, b_i, b_results, b_session, b_store, b_before, b_log, b_round,
                  yamlVars, mergeVars, tableVars, pdfVars, sectionVars>>

NextStore ==
  \/ BatchStart
  \/ BatchNotFound
  \/ SaveParseRaise
  \/ SaveDelete
  \/ SaveFlushRaise
  \/ SaveAdd
  \/ SaveCommitRaise
  \/ SaveCommit
  \/ BatchExcept
  \/ BatchReturn

SpecStore == InitStore /\ [][NextStore]_vars

\* The (name, originating evaluation file) of a stored subject and of a file.
RowKey(row) == <<row.name, row.source_yaml>>
FileKey(f) == <<ParseYaml(f.tree, f.name).student.name, f.name>>

\* The latest committed submission with the key k.
Latest(log, k) == log[Max({j \in 1..Len(log) : FileKey(log[j]) = k})]

\* What the submission f leaves in a store that was empty.
SubmittedAlone(f) == ReferenceJeojang(<<>>, f.tree, f.name, f.pdf)[1]

\* C13: after any sequence of 레퍼런스_저장 calls from an empty store, the store
\* holds at most one subject per (name, evaluation file); every stored subject,
\* with its child records, is exactly what the latest submission with its key
\* produces alone, and every submitted key has its subject.
ReplaceSemantics ==
  /\ \A i, j \in 1..Len(b_store) : i # j => RowKey(b_store[i]) # RowKey(b_store[j])
  /\ \A i \in 1..Len(b_store) :
       /\ \E j \in 1..Len(b_log) : FileKey(b_log[j]) = RowKey(b_store[i])
       /\ b_store[i] = SubmittedAlone(Latest(b_log, RowKey(b_store[i])))
  /\ \A j \in 1..Len(b_log) : \E i \in 1..Len(b_store) : RowKey(b_store[i]) = FileKey(b_log[j])

\* C13 witness: an evaluation file of one name has been committed twice with
\* different entries; the store holds one subject for it, with the child
\* records of the second submission and none of the first.
ReplaceSemanticsWitness ==
  /\ b_pc = "done"
  /\ Len(b_log) = 2
  /\ FileKey(b_log[1]) = FileKey(b_log[2])
  /\ SubmittedAlone(b_log[1]).activities # <<>>
  /\ SubmittedAlone(b_log[2]).activities = <<>>
  /\ Len(b_store) = 1
  /\ b_store[1].activities = <<>>
  /\ b_store[1].subjects = SubmittedAlone(b_log[2]).subjects
  /\ b_store[1].subjects # <<>>

\* Whether 레퍼런스_저장 raises on the file f, whatever the store holds.
FileFails(f) ==
  IF ParseYamlRaises(f.tree) THEN TRUE
  ELSE \/ StudentInsertRaises(ParseYaml(f.tree, f.name))
       \/ CommitRaises(SubmittedAlone(f))

\* The store after the files of dir reported as successful have been stored,
\* one after the other, in the store `before`, and no other.
SuccessfulOnly(before, dir, results) ==
  LET f[i \in 0..Len(dir)] ==
        IF i = 0 THEN before
        ELSE IF results[i].success
             THEN ReferenceJeojang(f[i - 1], dir[i].tree, dir[i].name, dir[i].pdf)
             ELSE f[i - 1]
  IN  f[Len(dir)]

\* C14: when upload_batch returns, every file has exactly one result, in file
\* order, failed exactly when its processing raises; total is the number of
\* files and success_count + fail_count = total; the store holds the store of
\* before the batch with the successful files stored in it and nothing of a
\* failing file, whose deletions are undone.
BatchIndependence ==
  b_pc = "done" =>
    /\ Len(b_results) = Len(b_dir)
    /\ \A i \in 1..Len(b_dir) :
         /\ b_results[i].filename = b_dir[i].name
         /\ b_results[i].success = ~FileFails(b_dir[i])
    /\ b_summary.total = Len(b_dir)
    /\ b_summary.success_count + b_summary.fail_count = b_summary.total
    /\ b_summary.success_count = Cardinality({i \in 1..Len(b_dir) : ~FileFails(b_dir[i])})
    /\ b_store = SuccessfulOnly(b_before, b_dir, b_results)

\* C14 witness: a batch of two files has returned; the first raised at its
\* commit, after the session had deleted the subject stored for it by an
\* earlier batch, and the second was stored; the subject of the earlier batch
\* is still in the store.
BatchIndependenceWitness ==
  /\ b_pc = "done"
  /\ Len(b_dir) = 2
  /\ ~b_results[1].success /\ b_results[2].success
  /\ ~ParseYamlRaises(b_dir[1].tree)
  /\ \E i \in 1..Len(b_before) :
       /\ RowKey(b_before[i]) = FileKey(b_dir[1])
       /\ \E j \in 1..Len(b_store) : b_store[j] = b_before[i]
  /\ Len(b_store) = Len(b_before) + 1

\* The stored rows are, one for one and in order, the extracted records: the
\* fields of `fields` are the record's, evaluation and reason are null.
Unevaluated(row) == row.evaluation = None /\ row.reason = None /\ row.evaluation # <<>>
                      /\ row.reason # <<>>
SameActivity(row, rec) ==
  row.category = rec.category /\ row.grade = rec.grade /\ row.original_text = rec.original_text
SameSubject(row, rec) ==
  /\ row.grade = rec.grade /\ row.subject_name = rec.subject_name
  /\ row.original_text = rec.original_text
SameBehavior(row, rec) == row.grade = rec.grade /\ row.original_text = rec.original_text

DocumentOnlyRows(activities, subjects, behaviors) ==
  /\ Len(activities) = Len(p_out.activities)
  /\ Len(subjects) = Len(p_out.subjects)
  /\ Len(behaviors) = Len(p_out.behaviors)
  /\ \A i \in 1..Len(activities) :
       SameActivity(activities[i], p_out.activities[i]) /\ Unevaluated(activities[i])
  /\ \A i \in 1..Len(subjects) :
       SameSubject(subjects[i], p_out.subjects[i]) /\ Unevaluated(subjects[i])
  /\ \A i \in 1..Len(behaviors) :
       SameBehavior(behaviors[i], p_out.behaviors[i]) /\ Unevaluated(behaviors[i])

\* The uploaded document matched no subject of the reference store.
NoStemMatch == \A i \in 1..Len(r_db) : ~StemLike(r_db[i].source_yaml, Stem("s1.pdf"))

\* C15: the activity, subject and behavior rows created from an extracted
\* document without an evaluation file, by the client upload and by the
\* reference upload that matches no subject, have evaluation and reason null
\* (not the empty string) and the category, grade, subject name and original
\* text of the extracted records.
DocumentOnly ==
  /\ p_pc = "stored" => DocumentOnlyRows(c_db.activities, c_db.subjects, c_db.behaviors)
  /\ p_pc = "ref_stored" /\ NoStemMatch =>
       DocumentOnlyRows(r_db[Len(r_db)].activities, r_db[Len(r_db)].subjects,
                        r_db[Len(r_db)].behaviors)

\* C15 witness: a document with an activity, a subject remark and a behavior
\* remark has been uploaded to a reference store that holds another file's
\* subject; a new subject was created, with a row for each record.
DocumentOnlyWitness ==
  /\ p_pc = "ref_stored"
  /\ NoStemMatch
  /\ Len(r_db) = 2
  /\ r_db[2].source_yaml = "None"
  /\ r_db[2].activities # <<>> /\ r_db[2].subjects # <<>> /\ r_db[2].behaviors # <<>>
  /\ r_db[2].activities[1].original_text # None
  /\ r_db[2].activities[1].evaluation = None

\* The evaluation file f gives no name: no 성명 field, or an empty one.
Nameless(f) == DictGet(f.tree.haksaeng, "seongmyeong", "") = ""

\* C16: every subject stored from an evaluation file has a non-empty name,
\* and the subject stored from a file that gives no name is named by the
\* sentinel 미확인.
NameInvariant ==
  /\ \A i \in 1..Len(b_store) : b_store[i].name # ""
  /\ \A j \in 1..Len(b_log) :
       Nameless(b_log[j]) =>
         \E i \in 1..Len(b_store) :
           b_store[i].source_yaml = b_log[j].name /\ b_store[i].name = "mihwagin"

\* C17: the career aspirations stored for a subject hold at most one entry
\* per grade.
CareerHopeUniqueness ==
  \A i \in 1..Len(b_store) :
    \A j, k \in 1..Len(b_store[i].career_hopes) :
      j # k => b_store[i].career_hopes[j].grade # b_store[i].career_hopes[k].grade

\* C18: every activity record parse_yaml returns has a grade in 1..3 and one
\* of the three activity types as its category, and every career aspiration
\* it returns has a grade in 1..3.
RecordDomain ==
  y_pc = "parsed" =>
    /\ \A r \in Range(yaml_data.activities) :
         r.grade \in 1..3 /\ r.category \in ActivityTypes
    /\ \A r \in Range(yaml_data.career_hopes) : r.grade \in 1..3

\* The entries of a record section that stand where a record can come from:
\* under a grade key _학년_파싱 accepts and, for activities, under a category
\* whose value is a mapping; for subjects, under a grade whose value is a
\* mapping and a key other than 세특_전체. In file order.
ValidGradeItems(m) == SelectSeq(m, LAMBDA item : ~GradeFalsy(HaknyeonParsing(item[1])))

ActivityShapeEntries(section) ==
  LET Under(pair) == IF pair[2].kind = "dict"
                     THEN LET it == ValidGradeItems(pair[2].m)
                          IN  [i \in 1..Len(it) |-> it[i][2]]
                     ELSE <<>>
  IN  FlatMap(Under, section)

SubjectShapeEntries(section) ==
  LET Under(pair) == IF pair[2].kind = "dict"
                     THEN LET it == SelectSeq(pair[2].m,
                                              LAMBDA item : item[1] # "seteuk_jeonche")
                          IN  [i \in 1..Len(it) |-> it[i][2]]
                     ELSE <<>>
  IN  FlatMap(Under, ValidGradeItems(section))

BehaviorShapeEntries(section) ==
  LET it == ValidGradeItems(section) IN [i \in 1..Len(it) |-> it[i][2]]

\* The evaluation and rationale of the records of a section.
EvaluationsOf(records) ==
  [i \in 1..Len(records) |->
     [evaluation |-> records[i].evaluation, reason |-> records[i].reason]]

\* What an entry yields by its shape alone: a bare string gives its text and
\* an empty rationale, a mapping gives its two fields (stripped, "" when
\* missing or falsy), anything else gives nothing.
ShapeAsStated(v) ==
  IF v.kind = "str" THEN <<[evaluation |-> v.s, reason |-> <<>>]>>
  ELSE IF v.kind = "dict"
    THEN <<[evaluation |-> StrStripOrEmpty(DictGet(v.m, "pyeongga", YStr(<<>>))),
            reason     |-> StrStripOrEmpty(DictGet(v.m, "iyu", YStr(<<>>)))]>>
  ELSE <<>>

\* A bare string, or a mapping's 평가내용, that is the sentinel once stripped.
RedactedEntry(v) ==
  \/ v.kind = "str" /\ Strip(v.s) = Sentinel
  \/ v.kind = "dict" /\ LET e == DictGet(v.m, "pyeongga", YStr(<<>>))
                        IN  e.kind = "str" /\ Strip(e.s) = Sentinel

ShapeOf(v) == IF RedactedEntry(v) THEN <<>> ELSE ShapeAsStated(v)

\* C20 as stated: in each of the three record sections, every bare-string
\* entry yields one record with that string and an empty rationale, every
\* mapping entry yields one record with its two fields, and every other
\* entry yields none, the later entries being parsed all the same.
EntryShapesAsStated ==
  y_pc = "parsed" =>
    /\ EvaluationsOf(yaml_data.activities)
         = FlatMap(ShapeAsStated, ActivityShapeEntries(yaml_file.changche))
    /\ EvaluationsOf(yaml_data.subjects)
         = FlatMap(ShapeAsStated, SubjectShapeEntries(yaml_file.seteuk))
    /\ EvaluationsOf(yaml_data.behaviors)
         = FlatMap(ShapeAsStated, BehaviorShapeEntries(yaml_file.haengteuk))

\* C20: in each of the three record sections the records are, in file order,
\* those of the entries that are not redacted: one record per bare string,
\* with that string as evaluation and an empty rationale; one record per
\* mapping, with the stripped string forms of 평가내용 and 이유 ("" when
\* missing or falsy); none for a number, a list or null, and the entries
\* after such a value are parsed all the same.
EntryShapes ==
  y_pc = "parsed" =>
    /\ EvaluationsOf(yaml_data.activities)
         = FlatMap(ShapeOf, ActivityShapeEntries(yaml_file.changche))
    /\ EvaluationsOf(yaml_data.subjects)
         = FlatMap(ShapeOf, SubjectShapeEntries(yaml_file.seteuk))
    /\ EvaluationsOf(yaml_data.behaviors)
         = FlatMap(ShapeOf, BehaviorShapeEntries(yaml_file.haengteuk))

\* C20 witness: a file whose 행동특성_및_종합의견 holds null under 1학년 and a
\* bare string under 2학년 has been parsed: null gave no record and the
\* string gave the record of grade 2, with an empty rationale.
EntryShapesWitness ==
  /\ y_pc = "parsed"
  /\ yaml_file.haengteuk = << <<K_1haknyeon, YNull>>, <<K_2haknyeon, YStr(T_good)>> >>
  /\ yaml_data.behaviors = <<[grade |-> 2, evaluation |-> T_good, reason |-> <<>>]>>

-----------------------------------------------------------------------------
(* SpecSection: _섹션_추출 applied to every text of at most MaxSectionText  *)
(* characters and every pair of the patterns of SectionPatterns.           *)

MaxSectionText == 4

SectionTexts == SeqsUpTo({"a", "b", "\n"}, MaxSectionText)

\* a, b, \n, ab, a|ab, ab|a, the empty pattern, and c, which no text holds.
SectionPatterns ==
  { << <<"a">> >>, << <<"b">> >>, << <<"\n">> >>, << <<"a", "b">> >>,
    << <<"a">>, <<"a", "b">> >>, << <<"a", "b">>, <<"a">> >>, << <<>> >>, << <<"c">> >> }

InitSection ==
  /\ x_pc = "called"
  /\ x_text \in SectionTexts
  /\ x_sijak \in SectionPatterns
  /\ x_jongryo \in SectionPatterns
  /\ x_out = <<>>
  /\ YamlIdle /\ MergeIdle /\ TableIdle /\ PdfIdle /\ StoreIdle

SectionCall ==
  /\ x_pc = "called"
  /\ x_out' = SeksyeonChuchul(x_text, x_sijak, x_jongryo)
  /\ x_pc' = "returned"
  /\ UNCHANGED <<x_text, x_sijak, x_jongryo, yamlVars, mergeVars, tableVars, pdfVars, storeVars>>

NextSection == SectionCall

SpecSection == InitSection /\ [][NextSection]_vars

\* The places of text where pattern matches (the number of characters before
\* the match), and the length of the match re.search reports at such a place.
MatchPlaces(pattern, text) == {i \in 0..Len(text) : MatchAt(pattern, text, i)}
MatchLenAt(pattern, text, i) ==
  Len(pattern[Min({a \in 1..Len(pattern) : AltAt(pattern[a], text, i)})])

\* The text after the end of the first match of the start pattern.
AfterFirstStart(text, sijak) ==
  LET i == Min(MatchPlaces(sijak, text))
  IN  SubSeq(text, i + MatchLenAt(sijak, text, i) + 1, Len(text))

\* C19: _섹션_추출 returns the empty string when the start pattern has no
\* match; the whole text after the end of the first start match when the
\* end pattern has no match in that remainder; otherwise that remainder up
\* to the start of the first end match. The result is a contiguous
\* substring of the text.
SectionLocator ==
  x_pc = "returned" =>
    /\ MatchPlaces(x_sijak, x_text) = {} => x_out = <<>>
    /\ MatchPlaces(x_sijak, x_text) # {} =>
         LET rest == AfterFirstStart(x_text, x_sijak)
             ends == MatchPlaces(x_jongryo, rest)
         IN  /\ ends = {} => x_out = rest
             /\ ends # {} => x_out = SubSeq(rest, 1, Min(ends))
    /\ IsSubstring(x_out, x_text)

\* C19 witness: a call has returned for a text in which the start pattern
\* matches, the end pattern matches in the remainder after a first
\* character, and a part of the remainder was cut off.
SectionLocatorWitness ==
  /\ x_pc = "returned"
  /\ MatchPlaces(x_sijak, x_text) # {}
  /\ MatchPlaces(x_jongryo, AfterFirstStart(x_text, x_sijak)) # {}
  /\ x_out # <<>>
  /\ Len(x_out) < Len(AfterFirstStart(x_text, x_sijak))

\* The leading digit of a grade key, as a number: of str(key), for a string
\* key and for an integer key alike; NoGrade when there is none.
LeadingDigit(key) ==
  LET t == PyStr(key)
  IN  IF t # <<>> /\ IsDigit(Head(t)) THEN DigitVal(Head(t)) ELSE NoGrade

\* The grade keys of the entries a record comes from, in file order: the
\* entries of ActivityShapeEntries, SubjectShapeEntries and
\* BehaviorShapeEntries that yield a record.
RecordItems(m) == SelectSeq(ValidGradeItems(m), LAMBDA item : ShapeOf(item[2]) # <<>>)

ActivityRecordKeys(section) ==
  LET Under(pair) == IF pair[2].kind = "dict"
                     THEN LET it == RecordItems(pair[2].m)
                          IN  [i \in 1..Len(it) |-> it[i][1]]
                     ELSE <<>>
  IN  FlatMap(Under, section)

SubjectRecordKeys(section) ==
  LET Under(pair) == IF pair[2].kind = "dict"
                     THEN LET it == SelectSeq(pair[2].m,
                                     LAMBDA item : /\ item[1] # "seteuk_jeonche"
                                                   /\ ShapeOf(item[2]) # <<>>)
                          IN  [i \in 1..Len(it) |-> pair[1]]
                     ELSE <<>>
  IN  FlatMap(Under, ValidGradeItems(section))

BehaviorRecordKeys(section) ==
  LET it == RecordItems(section) IN [i \in 1..Len(it) |-> it[i][1]]

GradesOf(records) == [i \in 1..Len(records) |-> records[i].grade]
LeadingDigits(keys) == [i \in 1..Len(keys) |-> LeadingDigit(keys[i])]

\* C21: the grade of every activity, subject and behavior record parse_yaml
\* returns is the leading digit of the grade key of its entry, for string
\* keys and for integer keys, and no record comes from an entry whose key
\* has no leading digit.
GradeKeyParsing ==
  y_pc = "parsed" =>
    /\ GradesOf(yaml_data.activities)
         = LeadingDigits(ActivityRecordKeys(yaml_file.changche))
    /\ GradesOf(yaml_data.subjects)
         = LeadingDigits(SubjectRecordKeys(yaml_file.seteuk))
    /\ GradesOf(yaml_data.behaviors)
         = LeadingDigits(BehaviorRecordKeys(yaml_file.haengteuk))
    /\ \A r \in Range(yaml_data.activities) \cup Range(yaml_data.subjects)
                  \cup Range(yaml_data.behaviors) : r.grade # NoGrade

\* The subject 레퍼런스_저장 stored last.
SavedRow == r_db[Len(r_db)]

\* C22: when the document paired with an evaluation file fails the
\* whole-document guard, 레퍼런스_저장 completes: it stores the subject with
\* source_pdf null and one row per evaluation record, each with original_text
\* null, whatever the extractors would find in the document.
UnreadablePaired ==
  p_pc = "saved_unread" =>
    /\ Len(r_db) >= 1
    /\ SavedRow.name = "kim" /\ SavedRow.source_yaml = "s1.yaml"
    /\ SavedRow.source_pdf = "None"
    /\ Len(SavedRow.activities) = Len(ParseYaml(PairedTree, "s1.yaml").activities)
    /\ Len(SavedRow.behaviors) = Len(ParseYaml(PairedTree, "s1.yaml").behaviors)
    /\ NullText(SavedRow.activities) /\ NullText(SavedRow.subjects)
    /\ NullText(SavedRow.behaviors)

\* C22 witness: the evaluation file has been stored with a paired document
\* of three pages that fails the guard and whose third page holds an
\* activity table and a behavior block for the keys of the file's records.
UnreadablePairedWitness ==
  /\ p_pc = "saved_unread"
  /\ Len(p_doc) = 3 /\ p_doc[3] = FullPage
  /\ Len(SavedRow.activities) = 1 /\ Len(SavedRow.behaviors) = 1
  /\ ~NullText(PdfDataExtracted(p_doc, "s1.pdf").activities)

-----------------------------------------------------------------------------
(* The running state of _창체_테이블_파싱, on SpecTable. *)

HasGradeCell(row) == \E i \in 1..Len(row) : IsGradeCell(CleanCell(row[i]))
HasActivityCell(row) == \E i \in 1..Len(row) : IsActivityCell(CleanCell(row[i]))
BlankRow(row) == \A i \in 1..Len(row) : CleanCell(row[i]) = <<>>

\* current_grade and current_activity
RunningOf(st) == <<st.current_grade, st.current_activity>>
\* The record under a key in the locals st.
RecordAt(st, key) == DictGet(st.gyeolgwa, key, [original_text |-> None])

\* One step of the extractor: a page, a table or the return leaves the
\* running grade and category and the records alone; a row with neither a
\* grade cell nor a label leaves the running grade and category alone and,
\* when it is not blank and a category is known, writes to the record of the
\* running key and to no other, its content being part of that record's
\* text when the record has one; a row met while no category is known and
\* carrying no label makes no record.
RunningStateStep ==
  /\ t_pc = "pages" => RunningOf(tb') = RunningOf(tb) /\ tb'.gyeolgwa = tb.gyeolgwa
  /\ t_pc = "rows" =>
       LET row == Head(t_rows)
           key == RunningOf(tb)
       IN  /\ (~HasGradeCell(row) /\ ~HasActivityCell(row)) =>
                /\ RunningOf(tb') = RunningOf(tb)
                /\ (~BlankRow(row) /\ tb.current_activity # "None") =>
                     /\ t_last'.acted /\ t_last'.key = key
                     /\ DictHas(tb'.gyeolgwa, key)
                     /\ \A k \in 1..Len(tb.gyeolgwa) :
                          tb.gyeolgwa[k][1] # key => tb'.gyeolgwa[k] = tb.gyeolgwa[k]
                     /\ (t_last'.content # <<>> /\ RecordAt(tb', key).original_text # None)
                          => IsSubstring(t_last'.content, RecordAt(tb', key).original_text)
           /\ (tb.current_activity = "None" /\ ~HasActivityCell(row)) =>
                tb'.gyeolgwa = tb.gyeolgwa /\ tb'.current_activity = "None"

SectionFlag == t_page_on = t_span

\* A career aspiration that is missing: None or "".
NoHope(h) == h \in {None, <<>>}

\* The aspiration of the record under a key; None when there is no record.
HopeAt(st, key) ==
  IF DictHas(st.gyeolgwa, key) THEN DictGet(st.gyeolgwa, key, <<>>).career_hope ELSE None

\* Only the records of 진로활동 have a career_hope.
HopeOnlyInCareer ==
  /\ \A k \in 1..Len(tb.gyeolgwa) :
       ("career_hope" \in DOMAIN tb.gyeolgwa[k][2]) <=> (tb.gyeolgwa[k][1][2] = "jinro")
  /\ \A k \in 1..Len(t_out) :
       ("career_hope" \in DOMAIN t_out[k]) <=> (t_out[k].category = "jinro")

\* One row of a 진로활동 key: the record keeps the aspiration it has, takes
\* the row's when it has none, and the records of the other keys keep theirs.
CareerHopeStep ==
  t_pc = "rows" =>
    LET r   == TableRowParts(tb, Head(t_rows))
        key == <<r.current_grade, r.current_activity>>
    IN  /\ (~r.blank /\ r.current_activity = "jinro") =>
             /\ ~NoHope(HopeAt(tb, key)) => HopeAt(tb', key) = HopeAt(tb, key)
             /\ (NoHope(HopeAt(tb, key)) /\ ~NoHope(r.career_hope))
                  => HopeAt(tb', key) = r.career_hope
             /\ (NoHope(HopeAt(tb, key)) /\ NoHope(r.career_hope))
                  => NoHope(HopeAt(tb', key))
        /\ \A k \in 1..Len(tb.gyeolgwa) :
             (tb.gyeolgwa[k][1] # key /\ tb.gyeolgwa[k][1][2] = "jinro")
               => HopeAt(tb', tb.gyeolgwa[k][1]) = tb.gyeolgwa[k][2].career_hope

\* C25: the aspiration of a (grade, 진로활동) record is the first non-empty
\* value one of its rows supplied: a later row with another value does not
\* replace it, a later row fills it when it was missing, and the records of
\* the other two categories have no aspiration.
CareerAspiration == [](HopeOnlyInCareer) /\ [][CareerHopeStep]_vars

\* C25 witness: a row whose content holds the line "희망분야 ns" has met a
\* 진로활동 record whose aspiration, from the label cell of an earlier row,
\* is "dr", and the record still has "dr".
CareerAspirationWitness ==
  /\ t_last.acted /\ t_last.had /\ t_last.key[2] = "jinro"
  /\ t_last.content = Rep("z", ChangcheMinLen + 1)
  /\ ResultAt(t_last.key).career_hope = HopeVal

\* The rows of RowUnits that belong to the key (1, 자율활동): its two header
\* rows and the continuation row.
JayulHeaders == {<<<<"1">>, <<"jayul">>, Hours, C_short>>, <<<<"1">>, <<"jayul">>, Hours, C_long>>}
JayulRows == JayulHeaders \cup {<<E, E, E, C_long>>}

\* The document is one table whose rows all belong to (1, 자율활동).
OneKeyTable ==
  /\ Len(p_doc) = 1 /\ Len(p_doc[1].tables) = 1
  /\ p_doc[1].tables[1] # <<>>
  /\ p_doc[1].tables[1][1] \in JayulHeaders
  /\ \A k \in 1..Len(p_doc[1].tables[1]) : p_doc[1].tables[1][k] \in JayulRows

\* The contents of the rows (their fourth cell), and the distinct ones of
\* them joined by spaces.
RowContents(rows) == [k \in 1..Len(rows) |-> rows[k][4]]
Accumulation(rows) == Join(<<" ">>, Distinct(RowContents(rows)))

\* C29: for the rows of one (grade, category) key, the record's text is
\* non-null exactly when the space-joined accumulation of the distinct row
\* contents is longer than 15 characters, and a non-null text contains the
\* content of every row, a content of 15 characters or fewer of an earlier
\* row included.
TableAccumulation ==
  (p_pc = "tables" /\ OneKeyTable) =>
    /\ Len(p_out.activities) = 1
    /\ (p_out.activities[1].original_text # None)
         <=> (Len(Accumulation(p_doc[1].tables[1])) > ChangcheMinLen)
    /\ p_out.activities[1].original_text # None =>
         \A k \in 1..Len(p_doc[1].tables[1]) :
           IsSubstring(p_doc[1].tables[1][k][4], p_out.activities[1].original_text)

\* The grade digit a header line of the activity text carries (the
\* character after its newline), or NoGrade; and its category.
HeaderDigit(h) == IF IsDigit(h[2]) THEN DigitVal(h[2]) ELSE NoGrade
HeaderCategory(h) == h[CHOOSE k \in 1..Len(h) : h[k] \in ActivityTypes]

\* The digit of the nearest header at or before the i-th that carries one,
\* or 1 when none does.
NearestGrade(us, i) ==
  LET carrying == {j \in 1..i : HeaderDigit(us[j].header) # NoGrade}
  IN  IF carrying = {} THEN 1 ELSE HeaderDigit(us[Max(carrying)].header)

\* C26: on a document without tables the activity list holds one record per
\* boundary of the section text, in document order, with the boundary's
\* category and with the digit of the nearest boundary at or before it that
\* carries a grade digit as its grade, or 1 when none does.
StickyGrade ==
  Returned =>
    \A us \in UnitSeqs(ActUnits) :
      p_doc = ActDoc(us) =>
        /\ Len(p_out.activities) = Len(us)
        /\ \A k \in 1..Len(us) :
             /\ p_out.activities[k].grade = NearestGrade(us, k)
             /\ p_out.activities[k].category = HeaderCategory(us[k].header)

\* C26 witness: parse_pdf has returned from a text with the boundary
\* "2 동아리활동 10" followed by the boundary "자율활동 20", which has no
\* digit: both records have grade 2.
StickyGradeWitness ==
  /\ Returned
  /\ p_doc = ActDoc(<<[header |-> H_two, content |-> C_short],
                      [header |-> H_same, content |-> C_more]>>)
  /\ Len(p_out.activities) = 2
  /\ p_out.activities[1].grade = 2 /\ p_out.activities[2].grade = 2
  /\ p_out.activities[2].category = "jayul"

\* The records the grade blocks of GradeText(pre, hs) are to give: the entry
\* of pre, when it has one, with grade g, and the entry under each header
\* with the header's grade.
PreRecord(pre, g) ==
  IF Len(pre) <= Len(PreHead) + 1 THEN <<>>
  ELSE <<[grade |-> g, subject_name |-> PreName,
          original_text |-> Rep("n", Len(pre) - Len(PreHead) - 1)]>>
HeaderRecords(hs) ==
  [i \in 1..Len(hs) |->
     [grade |-> HeaderGrade(hs[i]), subject_name |-> <<"gug", "eo">>,
      original_text |-> S_over]]
GradeBlockRecords(pre, hs) ==
  IF hs = <<>> THEN PreRecord(pre, 1)
  ELSE IF Len(pre) > 200
    THEN PreRecord(pre, Max({1, HeaderGrade(hs[1]) - 1})) \o HeaderRecords(hs)
  ELSE HeaderRecords(hs)

\* C27: a subject section without a [N학년] header is parsed whole as grade
\* 1; with headers, the text from each header to the next one (or to the
\* end) is parsed with the header's grade, and the text before the first
\* header is parsed, with grade max(1, first header's grade - 1), only when
\* it is longer than 200 characters and gives no record otherwise.
GradeBlocks ==
  Returned =>
    \A pre \in PreTexts, hs \in HeaderSeqs :
      p_doc = GradeDoc(pre, hs) => p_out.subjects = GradeBlockRecords(pre, hs)

\* C27 witness: parse_pdf has returned from a section whose first header,
\* [3학년], is at offset 201 and which has a second header [1학년]: the entry
\* before the first header has grade 2, the others 3 and 1.
GradeBlocksWitness ==
  /\ Returned
  /\ p_doc = GradeDoc(G_pre(PreBlockMin + 1), <<"[3haknyeon]", "[1haknyeon]">>)
  /\ Len(p_out.subjects) = 3
  /\ p_out.subjects[1].grade = 2 /\ p_out.subjects[1].subject_name = PreName
  /\ p_out.subjects[2].grade = 3 /\ p_out.subjects[3].grade = 1

\* The original_text column of a student's rows, section by section.
OriginalTexts(student) ==
  [activities |-> [i \in 1..Len(student.activities) |-> student.activities[i].original_text],
   subjects |-> [i \in 1..Len(student.subjects) |-> student.subjects[i].original_text],
   behaviors |-> [i \in 1..Len(student.behaviors) |-> student.behaviors[i].original_text]]

\* The student 레퍼런스_저장 stores from the evaluation file with the document
\* already present.
StoredPaired == ReferenceJeojang(<<>>, yaml_file, "s1.yaml", pdf_data)[1]

\* C28: after the evaluation file was ingested without its document and the
\* document was then uploaded and matched, every activity, subject and
\* behavior row has the original_text that 레퍼런스_저장 gives it when the
\* document is present at ingestion.
PathsAgree ==
  m_pc = "uploaded" => OriginalTexts(db[Len(db)]) = OriginalTexts(StoredPaired)

\* The two paths agree where the document has at most one record with a text
\* per key and no record without a text after one with a text, and the
\* evaluation file has no two records of one key.
DistinctRowKeys ==
  /\ \A i, j \in 1..Len(yaml_data.activities) :
       (yaml_data.activities[i].category = yaml_data.activities[j].category
          /\ yaml_data.activities[i].grade = yaml_data.activities[j].grade) => i = j
  /\ \A i, j \in 1..Len(yaml_data.subjects) :
       (yaml_data.subjects[i].subject_name = yaml_data.subjects[j].subject_name
          /\ yaml_data.subjects[i].grade = yaml_data.subjects[j].grade) => i = j
  /\ \A i, j \in 1..Len(yaml_data.behaviors) :
       yaml_data.behaviors[i].grade = yaml_data.behaviors[j].grade => i = j
SingleRecordPerKey ==
  /\ \A i, j \in 1..Len(pdf_data.activities) :
       (i < j /\ pdf_data.activities[i].category = pdf_data.activities[j].category
              /\ pdf_data.activities[i].grade = pdf_data.activities[j].grade)
         => pdf_data.activities[i].original_text = None
  /\ \A i, j \in 1..Len(pdf_data.subjects) :
       (i < j /\ pdf_data.subjects[i].subject_name = pdf_data.subjects[j].subject_name)
         => pdf_data.subjects[i].grade # pdf_data.subjects[j].grade
PathsAgreeSingle ==
  (m_pc = "uploaded" /\ SingleRecordPerKey /\ DistinctRowKeys)
    => OriginalTexts(db[Len(db)]) = OriginalTexts(StoredPaired)

\* The text `text` of a record holds the characters `part` in a row.
Holds(text, part) ==
  text # None /\ \E i \in 0..(Len(text) - Len(part)) : SubSeq(text, i + 1, i + Len(part)) = part

\* C30: the text the text path cuts from a block, from a club marker on or
\* after a recurrence of the section title, is in the text of the next
\* block's record and of no other record, also when both cuts are made on the
\* same block; what is left of the block stays in its own record.
ReassignConservation ==
  Returned =>
    \A m \in MidTexts :
      p_doc = ReassignDoc(m.text) =>
        /\ Len(p_out.activities) = 3
        /\ Holds(p_out.activities[2].original_text, M_own)
        /\ \A part \in m.cut :
             /\ Holds(p_out.activities[3].original_text, part)
             /\ ~Holds(p_out.activities[1].original_text, part)
             /\ ~Holds(p_out.activities[2].original_text, part)

\* The same with the block set aside in which the recurrence of the title
\* comes before the club marker.
ReassignConservationApart ==
  Returned =>
    \A m \in MidTexts :
      (p_doc = ReassignDoc(m.text) /\ m.text # M_own \o AfterTitle \o AfterMarker) =>
        /\ Len(p_out.activities) = 3
        /\ Holds(p_out.activities[2].original_text, M_own)
        /\ \A part \in m.cut :
             /\ Holds(p_out.activities[3].original_text, part)
             /\ ~Holds(p_out.activities[1].original_text, part)
             /\ ~Holds(p_out.activities[2].original_text, part)

=============================================================================
